---- MODULE Spec2Model ----
(***************************************************************************)
(* Authentication core of the secure web API: token codec                  *)
(* (app/security.py), account guard and refresh-token store                *)
(* (app/security.py, app/routers/auth.py, app/routers/users.py) and the    *)
(* current-user dependency (app/auth.py).                                  *)
(*                                                                         *)
(* Time is counted in minutes.  A JWT is modelled by its claims, by        *)
(* whether its signature verifies under settings.secret_key and by         *)
(* whether the string decodes at all.                                      *)
(***************************************************************************)
EXTENDS Integers, FiniteSets, Sequences, TLC

\* ------------------------------------------------------------------ bounds
MaxUsers == 2
MaxTicks == 1
MaxLogins == 2
MaxSessions == 1
MaxMinted == 1
MaxVaultRows == 2
MaxRestarts == 1

\* ------------------------------------------------------- program constants
access_token_expire_minutes == 30
refresh_token_expire_days == 7
refresh_token_expire_minutes == refresh_token_expire_days * 24 * 60
lock_duration_minutes == 30
LockThreshold == 5

\* ------------------------------------------------------------ input domains
Usernames == {"alice", "bob"}
Emails == {"alice@x.com", "bob@x.com"}
Passwords == {"Str0ng!Pass", "Wr0ng!Pass"}
NewPasswords == {"Str0ng!Pass"}
PasswordInputs == {"Str0ng!Pass", "Wr0ng!Pass", "N3w!Passw0rd"}
ChangedPasswords == {"Str0ng!Pass", "N3w!Passw0rd"}
GuardSteps == {lock_duration_minutes}
CodecSteps == {1, access_token_expire_minutes}
StoreSteps == {1, refresh_token_expire_minutes, refresh_token_expire_minutes + 1}
TokenTypes == {"access", "refresh"}

\* ------------------------------------------------- absent (Python None) values
NoneTime == -1
NoId == 0
Absent == "<absent>"

VARIABLES now, ticks, users, refresh_tokens, issued, next_jti, last,
          password_of, oauth2_tokens, cipher_key, history, vlast, pending,
          security_events, settings
\* the account side and the vault side of the state
account_vars == <<users, refresh_tokens, issued, next_jti, last, password_of>>
vault_vars == <<oauth2_tokens, cipher_key, history, vlast, pending>>
audit_vars == <<security_events>>
vars == <<now, ticks, account_vars, vault_vars, audit_vars, settings>>

\* ------------------------------------------------------------ configuration
\* app/config.py.  The environment either sets SECRET_KEY or leaves the
\* default of line 18 in place
DefaultSecretKey == "test-secret-key-that-is-at-least-32-characters-long-for-testing"

\* validate_secret_key with a floor of 16 characters
validate_secret_key_floor_16(v) == ~(Len(v) < 16)

\* Settings.validate_secret_key: TRUE when no ValueError is raised
validate_secret_key(v) == ~(Len(v) < 32)

\* no settings object: the module-level Settings() has not run, or it raised
NoSettings == [constructed |-> FALSE, secret_key |-> Absent]

\* Settings() under an environment; the validator runs on a value the
\* environment supplies
Settings(env_secret_key) ==
    IF env_secret_key = Absent
    THEN [constructed |-> TRUE, secret_key |-> DefaultSecretKey]
    ELSE IF validate_secret_key(env_secret_key)
    THEN [constructed |-> TRUE, secret_key |-> env_secret_key]
    ELSE NoSettings

\* ---------------------------------------------------------- credential hasher
get_password_hash(password) == [scheme |-> "bcrypt", digest_of |-> password]

verify_password_any(plain_password, hashed_password) ==
    hashed_password.scheme = "bcrypt"

verify_password(plain_password, hashed_password) ==
    hashed_password.scheme = "bcrypt" /\ hashed_password.digest_of = plain_password

\* ----------------------------------------------------------------- token codec
\* expires_delta: Optional[timedelta]
NoDelta == [given |-> FALSE, minutes |-> 0]
Delta(m) == [given |-> TRUE, minutes |-> m]
\* Python truth value of an Optional[timedelta]: None and timedelta(0) are falsy
Truthy(expires_delta) == expires_delta.given /\ expires_delta.minutes # 0

\* a string that is not a JWT at all
Garbage ==
    [type |-> Absent, sub |-> Absent, user_id |-> NoId, exp |-> 0, jti |-> 0,
     sig |-> "invalid", decodable |-> FALSE]

\* jwt.encode(claims, settings.secret_key, algorithm=settings.algorithm)
jwt_encode(type, sub, user_id, exp, jti) ==
    [type |-> type, sub |-> sub, user_id |-> user_id, exp |-> exp, jti |-> jti,
     sig |-> "valid", decodable |-> TRUE]

create_access_token(data, expires_delta, t) ==
    LET expire == IF Truthy(expires_delta)
                  THEN t + expires_delta.minutes
                  ELSE t + access_token_expire_minutes
    IN  jwt_encode("access", data.sub, data.user_id, expire, 0)

create_refresh_token(user_id, jti, t) ==
    jwt_encode("refresh", Absent, user_id, t + refresh_token_expire_minutes, jti)

\* jwt.decode(token, settings.secret_key, algorithms=[...]): the payload, or
\* a JWTError for an undecodable string, a bad signature or a passed exp
jwt_decode_no_signature_check(token, t) ==
    IF ~token.decodable THEN [error |-> "JWTError", payload |-> Garbage]
    ELSE IF token.exp < t THEN [error |-> "ExpiredSignatureError", payload |-> Garbage]
    ELSE [error |-> "", payload |-> token]

jwt_decode(token, t) ==
    IF ~token.decodable THEN [error |-> "JWTError", payload |-> Garbage]
    ELSE IF token.sig # "valid" THEN [error |-> "JWTError", payload |-> Garbage]
    ELSE IF token.exp < t THEN [error |-> "ExpiredSignatureError", payload |-> Garbage]
    ELSE [error |-> "", payload |-> token]

\* the exception classes "except JWTError" catches
IsJWTError(error) == error \in {"JWTError", "ExpiredSignatureError", "JWTClaimsError"}

\* Optional[TokenData]; raised: verify_token let an exception through
Raised == [is_none |-> FALSE, raised |-> TRUE, username |-> Absent, user_id |-> NoId]
NoneData == [is_none |-> TRUE, raised |-> FALSE, username |-> Absent, user_id |-> NoId]
TokenData(username, user_id) ==
    [is_none |-> FALSE, raised |-> FALSE, username |-> username, user_id |-> user_id]

verify_token_any_type(token, token_type, t) ==
    LET decoded == jwt_decode(token, t)
    IN  IF decoded.error # ""
        THEN (IF IsJWTError(decoded.error) THEN NoneData ELSE Raised)
        ELSE IF decoded.payload.sub = Absent \/ decoded.payload.user_id = NoId
             THEN NoneData
        ELSE TokenData(decoded.payload.sub, decoded.payload.user_id)

verify_token_sub_optional(token, token_type, t) ==
    LET decoded == jwt_decode(token, t)
    IN  IF decoded.error # ""
        THEN (IF IsJWTError(decoded.error) THEN NoneData ELSE Raised)
        ELSE IF decoded.payload.type # token_type THEN NoneData
        ELSE IF decoded.payload.user_id = NoId THEN NoneData
        ELSE TokenData(decoded.payload.sub, decoded.payload.user_id)

verify_token(token, token_type, t) ==
    LET decoded == jwt_decode(token, t)
    IN  IF decoded.error # ""
        THEN (IF IsJWTError(decoded.error) THEN NoneData ELSE Raised)
        ELSE IF decoded.payload.type # token_type THEN NoneData
        ELSE IF decoded.payload.sub = Absent \/ decoded.payload.user_id = NoId
             THEN NoneData
        ELSE TokenData(decoded.payload.sub, decoded.payload.user_id)

hash_refresh_token(token) == [sha256_of |-> token]

\* ------------------------------------------------------------------ user rows
UserIds == DOMAIN users

NewUser(id, username, email, password, verified, superuser) ==
    [id |-> id, username |-> username, email |-> email,
     hashed_password |-> get_password_hash(password),
     is_active |-> TRUE, is_verified |-> verified, is_superuser |-> superuser,
     failed_login_attempts |-> 0, locked_until |-> NoneTime,
     last_login |-> NoneTime]

\* db.query(User).filter(User.username == username).first(), as an id
get_user_by_username(username) ==
    IF \E i \in UserIds : users[i].username = username
    THEN CHOOSE i \in UserIds : users[i].username = username
    ELSE NoId

\* the email lookup answering that nobody holds the address
get_user_by_email_none(email) == NoId

get_user_by_email(email) ==
    IF \E i \in UserIds : users[i].email = email
    THEN CHOOSE i \in UserIds : users[i].email = email
    ELSE NoId

get_user_by_id(user_id) == IF user_id \in UserIds THEN user_id ELSE NoId

\* authenticate_user returning the row it found without comparing the password
authenticate_user_skips_password(username, password) ==
    get_user_by_username(username)

authenticate_user(username, password) ==
    LET uid == get_user_by_username(username)
    IN  IF uid = NoId THEN NoId
        ELSE IF ~verify_password(password, users[uid].hashed_password) THEN NoId
        ELSE uid

is_user_locked(user, t) ==
    IF user.locked_until = NoneTime THEN FALSE ELSE t < user.locked_until

lock_user_account(user, t) ==
    [user EXCEPT !.locked_until = t + lock_duration_minutes,
                 !.failed_login_attempts = 0]

\* increment_failed_login_attempts locking only above the threshold
increment_failed_login_attempts_above(user, t) ==
    LET counted == [user EXCEPT !.failed_login_attempts = @ + 1]
    IN  IF counted.failed_login_attempts > LockThreshold
        THEN lock_user_account(counted, t)
        ELSE counted

\* app/security.py increment_failed_login_attempts: the row as committed
increment_failed_login_attempts(user, t) ==
    LET counted == [user EXCEPT !.failed_login_attempts = @ + 1]
    IN  IF counted.failed_login_attempts >= LockThreshold
        THEN lock_user_account(counted, t)
        ELSE counted

reset_keeps_lock(user, t) ==
    [user EXCEPT !.failed_login_attempts = 0,
                 !.last_login = t]

reset_failed_login_attempts(user, t) ==
    [user EXCEPT !.failed_login_attempts = 0,
                 !.locked_until = NoneTime,
                 !.last_login = t]

\* --------------------------------------------------------- refresh-token store
NewRefreshRow(user_id, token, t) ==
    [user_id |-> user_id, token_hash |-> hash_refresh_token(token),
     expires_at |-> t + refresh_token_expire_minutes, is_revoked |-> FALSE]

store_refresh_token(rows, user_id, token, t) ==
    rows \cup {NewRefreshRow(user_id, token, t)}

RevocableRows_any_state(rows, token) ==
    {r \in rows : r.token_hash = hash_refresh_token(token)}

\* the rows revoke_refresh_token's query matches
RevocableRows(rows, token) ==
    {r \in rows : r.token_hash = hash_refresh_token(token) /\ ~r.is_revoked}

revoke_refresh_token(rows, token) ==
    LET found == RevocableRows(rows, token)
    IN  IF found # {}
        THEN LET row == CHOOSE r \in found : TRUE
             IN  [ret |-> TRUE,
                  rows |-> (rows \ {row}) \cup {[row EXCEPT !.is_revoked = TRUE]}]
        ELSE [ret |-> FALSE, rows |-> rows]

\* the sweep passing over revoked rows
cleanup_expired_tokens_unrevoked_only(rows, t) ==
    LET expired_tokens == {r \in rows : r.expires_at < t /\ ~r.is_revoked}
    IN  [rows |-> rows \ expired_tokens, ret |-> Cardinality(expired_tokens)]

\* cleanup_expired_tokens: the rows the query finds are deleted one by one and
\* their number is returned
cleanup_expired_tokens(rows, t) ==
    LET expired_tokens == {r \in rows : r.expires_at < t}
    IN  [rows |-> rows \ expired_tokens, ret |-> Cardinality(expired_tokens)]

\* ------------------------------------------------------------ tokens in the wild
\* every token the server has signed, with the arguments it was made from
Mint(by, tok, sub, user_id, delta, t) ==
    [by |-> by, tok |-> tok, for_sub |-> sub, for_id |-> user_id,
     delta |-> delta, at |-> t]

IssuedTokens == {m.tok : m \in issued}

\* a signed token whose payload was altered afterwards no longer verifies
Tamper(tok) == [tok EXCEPT !.sig = "invalid"]
Retyped(tok) ==
    [tok EXCEPT !.type = IF tok.type = "access" THEN "refresh" ELSE "access",
                !.sig = "invalid"]

\* what a client can send as a refresh token
Presentable ==
    IssuedTokens \cup {Garbage}

\* the refresh tokens made so far, and a string that is no token
RefreshCandidates ==
    {k \in IssuedTokens : k.type = "refresh"} \cup {Garbage}

\* what a client can send as a bearer token
Bearers ==
    {k \in IssuedTokens : k.type = "access"} \cup {Garbage}

\* --------------------------------------------------------- record of the last call
\* the lock window of a user row is open at time t
LockedAt(user, t) == user.locked_until # NoneTime /\ t < user.locked_until
\* the row carries a lock window that has run out by time t
LockElapsedAt(user, t) == user.locked_until # NoneTime /\ t >= user.locked_until

BlankLast ==
    [op |-> "init", uid |-> NoId, tok |-> Garbage, expected |-> Absent,
     username |-> Absent, email |-> Absent, pwd |-> Absent,
     queried |-> FALSE, hashed |-> FALSE,
     token_ok |-> FALSE, collides |-> FALSE, existed |-> FALSE, pwd_checked |-> FALSE, pwd_ok |-> FALSE,
     was_active |-> FALSE, was_locked |-> FALSE, lock_elapsed |-> FALSE,
     outcome |-> "", data |-> NoneData, ret |-> FALSE,
     users_changed |-> FALSE, store_changed |-> FALSE,
     minted |-> {}, streak |-> 0, at |-> 0,
     count |-> 0, deleted |-> {}, raised |-> FALSE,
     slow |-> FALSE, response |-> [status_code |-> 0, error |-> Absent],
     found |-> <<>>, claimed |-> NoId,
     health |-> [status |-> Absent, recent_critical_events |-> 0,
                 locked_users |-> 0, failed_logins_last_hour |-> 0]]

\* app/security.py log_security_event: the body returns before it builds or
\* stores a SecurityEvent row
log_security_event(events, event_type, user_id, t) == events

\* the event_type a handler passes to log_security_event for the way a call
\* ended, read in the state the call started from; Absent: it makes no call
account_event(call) ==
    CASE call.expected = "access" /\ call.outcome = "unauthenticated" ->
             (IF call.token_ok THEN "user_not_found" ELSE "invalid_token")
      [] call.expected = "access" /\ call.outcome = "inactive" ->
             "inactive_user_access_attempt"
      [] call.expected = "access" /\ call.outcome = "locked" ->
             "locked_user_access_attempt"
      [] call.op = "register" /\ call.outcome = "ConflictError" ->
             (IF \E i \in DOMAIN users : users[i].username = call.username
              THEN "registration_attempt_existing_username"
              ELSE "registration_attempt_existing_email")
      [] call.op = "register" /\ call.outcome = "ok" -> "user_registered"
      [] call.op = "login" /\ call.outcome = "AuthenticationFailure" -> "failed_login"
      [] call.op = "login" /\ call.outcome = "Inactive" -> "inactive_user_login_attempt"
      [] call.op = "login" /\ call.outcome = "AccountLocked" -> "locked_user_login_attempt"
      [] call.op = "login" /\ call.outcome = "ok" -> "successful_login"
      [] call.op = "refresh" /\ call.outcome = "TokenInvalid" ->
             (IF call.data.is_none THEN "invalid_refresh_token"
              ELSE "refresh_token_inactive_user")
      [] call.op = "refresh" /\ call.outcome = "ok" -> "token_refreshed"
      [] call.op = "logout" /\ call.ret -> "user_logout"
      [] call.op = "update_current_user" /\ call.outcome = "ConflictError" ->
             (IF call.username # Absent /\
                 \E i \in DOMAIN users : i # call.uid /\ users[i].username = call.username
              THEN "username_change_attempt_existing"
              ELSE "email_change_attempt_existing")
      [] call.op = "update_current_user" /\ call.outcome = "ok" -> "user_profile_updated"
      [] call.op = "lock_user" /\ call.outcome = "ok" -> "user_locked"
      [] call.op = "unlock_user" /\ call.outcome = "ok" -> "user_unlocked"
      [] call.op = "delete_user" /\ call.outcome = "ok" -> "user_deleted"
      [] call.op = "cleanup_tokens" /\ call.outcome = "ok" -> "token_cleanup"
      [] call.op = "change_password" /\ call.outcome = "ValidationError" ->
             "password_change_wrong_current"
      [] call.op = "change_password" /\ call.outcome = "ok" -> "password_changed"
      [] OTHER -> Absent

\* the handler's log_security_event call, if it makes one
audited(events, call) ==
    IF account_event(call) = Absent THEN events
    ELSE log_security_event(events, account_event(call), call.uid, call.at)

InitAccounts ==
    /\ now = 0
    /\ ticks = 0
    /\ users = <<>>
    /\ refresh_tokens = {}
    /\ issued = {}
    /\ next_jti = 1
    /\ last = BlankLast
    /\ password_of = <<>>
    /\ security_events = <<>>

\* the clock moves on between requests
Tick(d) ==
    /\ ticks < MaxTicks
    /\ now' = now + d
    /\ ticks' = ticks + 1
    /\ UNCHANGED <<users, refresh_tokens, issued, next_jti, last, settings>>
    /\ UNCHANGED <<vault_vars, password_of>>
    /\ UNCHANGED audit_vars

\* ------------------------------------------------------------- registration
NextUserId == IF UserIds = {} THEN 1
              ELSE (CHOOSE i \in UserIds : \A j \in UserIds : j <= i) + 1

\* ------------------------------------------------------ request validation
\* app/schemas.py: the request bodies are validated before the handler runs.
\* The characters of the strings the requests carry
LongName == "aaaaaaaaaaaaaaaaaaaaaaaaaaaaaaaaaaaaaaaaaaaaaaaaaaa"
Chars(s) ==
    CASE s = LongName -> [i \in 1..Len(LongName) |-> "a"]
      [] s = "alice" -> <<"a", "l", "i", "c", "e">>
      [] s = "bob" -> <<"b", "o", "b">>
      [] s = "carol" -> <<"c", "a", "r", "o", "l">>
      [] s = "ab" -> <<"a", "b">>
      [] s = "al;ce" -> <<"a", "l", ";", "c", "e">>
      [] s = "alice@x.com" -> <<"a", "l", "i", "c", "e", "@", "x", ".", "c", "o", "m">>
      [] s = "bob@x.com" -> <<"b", "o", "b", "@", "x", ".", "c", "o", "m">>
      [] s = "carol@x.com" -> <<"c", "a", "r", "o", "l", "@", "x", ".", "c", "o", "m">>
      [] s = "invalid-email" -> <<"i", "n", "v", "a", "l", "i", "d", "-", "e", "m", "a", "i", "l">>
      [] s = "alice@x" -> <<"a", "l", "i", "c", "e", "@", "x">>
      [] s = "Str0ng!Pass" -> <<"S", "t", "r", "0", "n", "g", "!", "P", "a", "s", "s">>
      [] s = "Wr0ng!Pass" -> <<"W", "r", "0", "n", "g", "!", "P", "a", "s", "s">>
      [] s = "N3w!Passw0rd" -> <<"N", "3", "w", "!", "P", "a", "s", "s", "w", "0", "r", "d">>
      [] s = "weak" -> <<"w", "e", "a", "k">>
      [] s = "password1!" -> <<"p", "a", "s", "s", "w", "o", "r", "d", "1", "!">>
      [] s = "PASSWORD1!" -> <<"P", "A", "S", "S", "W", "O", "R", "D", "1", "!">>
      [] s = "Passwords!" -> <<"P", "a", "s", "s", "w", "o", "r", "d", "s", "!">>
      [] s = "Passw0rds" -> <<"P", "a", "s", "s", "w", "0", "r", "d", "s">>

UpperChars == {"A", "B", "C", "D", "E", "F", "G", "H", "I", "J", "K", "L", "M",
               "N", "O", "P", "Q", "R", "S", "T", "U", "V", "W", "X", "Y", "Z"}
LowerChars == {"a", "b", "c", "d", "e", "f", "g", "h", "i", "j", "k", "l", "m",
               "n", "o", "p", "q", "r", "s", "t", "u", "v", "w", "x", "y", "z"}
DigitChars == {"0", "1", "2", "3", "4", "5", "6", "7", "8", "9"}
SpecialChars == {"!", "@", "#", "$", "%", "^", "&", "*", "(", ")", "_", "+", "-",
                 "=", "[", "]", "{", "}", "|", ";", ":", ",", ".", "<", ">", "?"}
AnyChar(chars, class) == \E i \in 1..Len(chars) : chars[i] \in class

\* UserBase.username / UserUpdate.username: Field(min_length=3, max_length=50,
\* pattern="^[a-zA-Z0-9_]+$")
username_field(username) ==
    LET c == Chars(username)
    IN  /\ Len(c) >= 3 /\ Len(c) <= 50
        /\ \A i \in 1..Len(c) :
              c[i] \in LowerChars \cup UpperChars \cup DigitChars \cup {"_"}

\* EmailStr: one "@" after a local part, then a domain of dotted labels
EmailStr(email) ==
    LET c == Chars(email)
        ats == {i \in 1..Len(c) : c[i] = "@"}
        at == CHOOSE i \in ats : TRUE
        dots == {i \in (at + 1)..Len(c) : c[i] = "."}
    IN  /\ Cardinality(ats) = 1
        /\ at > 1
        /\ dots # {}
        /\ \A i \in dots : i > at + 1 /\ i < Len(c) /\ (i + 1) \notin dots

\* UserCreate.validate_password, the rules without the digit rule
validate_password_no_digit_rule(v) ==
    LET c == Chars(v)
    IN  /\ ~(Len(c) < 8)
        /\ AnyChar(c, UpperChars)
        /\ AnyChar(c, LowerChars)
        /\ AnyChar(c, SpecialChars)

\* UserCreate.validate_password: TRUE when no ValueError is raised
validate_password(v) ==
    LET c == Chars(v)
    IN  /\ ~(Len(c) < 8)
        /\ AnyChar(c, UpperChars)
        /\ AnyChar(c, LowerChars)
        /\ AnyChar(c, DigitChars)
        /\ AnyChar(c, SpecialChars)

\* UserCreate.password: Field(min_length=8, max_length=128), then the validator
password_field(password) ==
    /\ Len(Chars(password)) >= 8 /\ Len(Chars(password)) <= 128
    /\ validate_password(password)

\* the body of POST /auth/register passes validation
UserCreate(username, email, password) ==
    username_field(username) /\ EmailStr(email) /\ password_field(password)

\* the body of PUT /users/me passes validation: both fields are optional
UserUpdate(username, email) ==
    /\ username # Absent => username_field(username)
    /\ email # Absent => EmailStr(email)

\* a row other than row uid carries the username / the email
NameHeldByOther(uid, username) ==
    \E i \in UserIds \ {uid} : users[i].username = username
EmailHeldByOther(uid, email) ==
    \E i \in UserIds \ {uid} : users[i].email = email

\* POST /auth/register
register(username, email, password) ==
    LET facts == [BlankLast EXCEPT
                    !.op = "register", !.at = now, !.username = username,
                    !.email = email, !.pwd = password, !.queried = TRUE,
                    !.collides = (NameHeldByOther(NoId, username) \/
                                  EmailHeldByOther(NoId, email))]
    IN  /\ IF get_user_by_username(username) # NoId
           THEN /\ UNCHANGED <<users, password_of>>
                /\ last' = [facts EXCEPT !.outcome = "ConflictError",
                                         !.users_changed = (users' # users)]
           ELSE IF get_user_by_email(email) # NoId
           THEN /\ UNCHANGED <<users, password_of>>
                /\ last' = [facts EXCEPT !.outcome = "ConflictError",
                                         !.users_changed = (users' # users)]
           ELSE /\ Cardinality(UserIds) < MaxUsers
                /\ users' = users @@ (NextUserId :>
                              NewUser(NextUserId, username, email, password, FALSE, FALSE))
                /\ password_of' = password_of @@ (NextUserId :> password)
                /\ last' = [facts EXCEPT !.uid = NextUserId, !.outcome = "ok",
                                         !.hashed = TRUE,
                                         !.users_changed = (users' # users)]
        /\ UNCHANGED <<now, ticks, settings, refresh_tokens, issued, next_jti>>
        /\ UNCHANGED vault_vars
        /\ security_events' = audited(security_events, last')

\* scripts/create_superuser.py: the unique constraints reject a duplicate
create_superuser(username, email, password) ==
    /\ IF get_user_by_username(username) # NoId \/ get_user_by_email(email) # NoId
       THEN /\ UNCHANGED users
            /\ last' = [BlankLast EXCEPT !.op = "create_superuser", !.at = now,
                                         !.outcome = "error"]
       ELSE /\ Cardinality(UserIds) < MaxUsers
            /\ users' = users @@ (NextUserId :>
                          NewUser(NextUserId, username, email, password, TRUE, TRUE))
            /\ last' = [BlankLast EXCEPT !.op = "create_superuser", !.at = now,
                                         !.uid = NextUserId, !.outcome = "ok",
                                         !.users_changed = TRUE]
    /\ UNCHANGED <<now, ticks, settings, refresh_tokens, issued, next_jti>>
    /\ UNCHANGED <<vault_vars, password_of>>
    /\ UNCHANGED audit_vars

\* ---------------------------------------------------------------------- login
\* how many calls in a row, this one included, were logins of the same existing
\* user with a wrong password (counted up to the lockout threshold)
Streak(found, pwd_ok) ==
    IF found = NoId \/ pwd_ok THEN 0
    ELSE IF last.op = "login" /\ last.uid = found /\ last.streak > 0
         THEN (IF last.streak < LockThreshold THEN last.streak + 1 ELSE last.streak)
    ELSE 1

\* what login() learns before it decides
LoginFacts(username, password) ==
    LET found == get_user_by_username(username)
    IN  [BlankLast EXCEPT
           !.op = "login", !.at = now, !.uid = found,
           !.existed = (found # NoId),
           !.pwd_checked = (found # NoId),
           !.pwd_ok = (found # NoId /\
                       verify_password(password, users[found].hashed_password)),
           !.was_active = (found # NoId /\ users[found].is_active),
           !.was_locked = (found # NoId /\ LockedAt(users[found], now)),
           !.lock_elapsed = (found # NoId /\ LockElapsedAt(users[found], now)),
           !.streak = Streak(found, found # NoId /\
                             verify_password(password, users[found].hashed_password))]

\* the HTTPException (or the 200) a login outcome reaches the client as
login_response(outcome) ==
    CASE outcome = "AuthenticationFailure" ->
             [status_code |-> 401, detail |-> "Incorrect username or password",
              www_authenticate |-> "Bearer"]
      [] outcome = "Inactive" ->
             [status_code |-> 403, detail |-> "Inactive user", www_authenticate |-> Absent]
      [] outcome = "AccountLocked" ->
             [status_code |-> 423,
              detail |-> "Account is temporarily locked due to too many failed login attempts",
              www_authenticate |-> Absent]
      [] OTHER -> [status_code |-> 200, detail |-> Absent, www_authenticate |-> Absent]

\* POST /auth/login
login(username, password) ==
    LET uid == authenticate_user(username, password)
        facts == LoginFacts(username, password)
    IN  /\ IF uid = NoId
           THEN /\ UNCHANGED <<users, refresh_tokens, issued, next_jti>>
                /\ last' = [facts EXCEPT !.outcome = "AuthenticationFailure"]
           ELSE IF ~users[uid].is_active
           THEN /\ UNCHANGED <<users, refresh_tokens, issued, next_jti>>
                /\ last' = [facts EXCEPT !.outcome = "Inactive"]
           ELSE IF is_user_locked(users[uid], now)
           THEN /\ UNCHANGED <<users, refresh_tokens, issued, next_jti>>
                /\ last' = [facts EXCEPT !.outcome = "AccountLocked"]
           ELSE LET access == create_access_token(
                                  [sub |-> users[uid].username, user_id |-> uid],
                                  Delta(access_token_expire_minutes), now)
                    refresh == create_refresh_token(uid, next_jti, now)
                IN  /\ next_jti <= MaxLogins
                    /\ users' = [users EXCEPT
                                   ![uid] = reset_failed_login_attempts(@, now)]
                    /\ refresh_tokens' =
                           store_refresh_token(refresh_tokens, uid, refresh, now)
                    /\ issued' = issued \cup
                           {Mint("create_access_token", access, users[uid].username, uid,
                                 Delta(access_token_expire_minutes), now),
                            Mint("create_refresh_token", refresh, Absent, uid, NoDelta, now)}
                    /\ next_jti' = next_jti + 1
                    /\ last' = [facts EXCEPT
                                  !.outcome = "ok",
                                  !.minted = {access, refresh},
                                  !.users_changed = (users' # users),
                                  !.store_changed = (refresh_tokens' # refresh_tokens)]
        /\ UNCHANGED <<now, ticks, settings>>
        /\ UNCHANGED <<vault_vars, password_of>>
        /\ security_events' = audited(security_events, last')

\* -------------------------------------------------------------------- refresh
\* POST /auth/refresh
refresh_token(token) ==
    LET token_data == verify_token(token, "refresh", now)
        uid == get_user_by_id(token_data.user_id)
        facts == [BlankLast EXCEPT
                    !.op = "refresh", !.at = now, !.tok = token,
                    !.expected = "refresh", !.data = token_data,
                    !.uid = token.user_id,
                    !.existed = (token.user_id \in UserIds),
                    !.was_active = (token.user_id \in UserIds /\
                                    users[token.user_id].is_active),
                    !.was_locked = (token.user_id \in UserIds /\
                                    LockedAt(users[token.user_id], now))]
    IN  /\ IF token_data.is_none
           THEN /\ UNCHANGED issued
                /\ last' = [facts EXCEPT !.outcome = "TokenInvalid"]
           ELSE IF uid = NoId \/ ~users[uid].is_active
           THEN /\ UNCHANGED issued
                /\ last' = [facts EXCEPT !.outcome = "TokenInvalid"]
           ELSE LET access == create_access_token(
                                  [sub |-> users[uid].username, user_id |-> uid],
                                  Delta(access_token_expire_minutes), now)
                IN  /\ issued' = issued \cup
                           {Mint("create_access_token", access, users[uid].username, uid,
                                 Delta(access_token_expire_minutes), now)}
                    /\ last' = [facts EXCEPT !.outcome = "ok", !.minted = {access}]
        /\ UNCHANGED <<now, ticks, settings, users, refresh_tokens, next_jti>>
        /\ UNCHANGED <<vault_vars, password_of>>
        /\ security_events' = audited(security_events, last')

\* --------------------------------------------------------------------- logout
\* POST /auth/logout
logout(token) ==
    LET revoked == revoke_refresh_token(refresh_tokens, token)
    IN  /\ refresh_tokens' = revoked.rows
        /\ last' = [BlankLast EXCEPT
                      !.op = "logout", !.at = now, !.tok = token,
                      !.ret = revoked.ret,
                      !.outcome = IF revoked.ret THEN "Successfully logged out"
                                  ELSE "Token not found or already revoked",
                      !.store_changed = (refresh_tokens' # refresh_tokens)]
        /\ UNCHANGED <<now, ticks, settings, users, issued, next_jti>>
        /\ UNCHANGED <<vault_vars, password_of>>
        /\ security_events' = audited(security_events, last')

\* ------------------------------------------------------- current-user dependency
\* get_current_user with the lock check left out
get_current_user_no_lock_check(token, t) ==
    LET token_data == verify_token(token, "access", t)
        uid == get_user_by_username(token_data.username)
    IN  IF token_data.is_none THEN [status |-> "unauthenticated", uid |-> NoId]
        ELSE IF uid = NoId THEN [status |-> "unauthenticated", uid |-> NoId]
        ELSE IF ~users[uid].is_active THEN [status |-> "inactive", uid |-> uid]
        ELSE [status |-> "ok", uid |-> uid]

\* app/auth.py get_current_user: the status it answers with and the user found
get_current_user(token, t) ==
    LET token_data == verify_token(token, "access", t)
        uid == get_user_by_username(token_data.username)
    IN  IF token_data.is_none THEN [status |-> "unauthenticated", uid |-> NoId]
        ELSE IF uid = NoId THEN [status |-> "unauthenticated", uid |-> NoId]
        ELSE IF ~users[uid].is_active THEN [status |-> "inactive", uid |-> uid]
        ELSE IF is_user_locked(users[uid], t) THEN [status |-> "locked", uid |-> uid]
        ELSE [status |-> "ok", uid |-> uid]

\* get_current_superuser on top of get_current_active_user
get_current_superuser(token, t) ==
    LET cur == get_current_user(token, t)
    IN  IF cur.status # "ok" THEN cur
        ELSE IF ~users[cur.uid].is_active THEN [status |-> "inactive", uid |-> cur.uid]
        ELSE IF ~users[cur.uid].is_superuser
             THEN [status |-> "forbidden", uid |-> cur.uid]
        ELSE cur

\* the request as it arrives: the bearer token is a signed, unexpired access
\* token that names a user, and the state of the rows carrying that name
BearerIsAccessToken(token, t) ==
    /\ token.decodable /\ token.sig = "valid" /\ ~(token.exp < t)
    /\ token.type = "access" /\ token.sub # Absent /\ token.user_id # NoId
NamedBy(token) == {i \in UserIds : users[i].username = token.sub}

Guarded(op, token, cur) ==
    [BlankLast EXCEPT !.op = op, !.at = now, !.expected = "access",
                      !.uid = cur.uid, !.outcome = cur.status,
                      !.token_ok = BearerIsAccessToken(token, now),
                      !.claimed = token.user_id,
                      !.queried = ~verify_token(token, "access", now).is_none,
                      !.existed = (NamedBy(token) # {}),
                      !.was_active = (\E i \in NamedBy(token) : users[i].is_active),
                      !.was_locked = (\E i \in NamedBy(token) : LockedAt(users[i], now))]

\* GET /users/me
get_current_user_info(token) ==
    LET cur == get_current_user(token, now)
    IN  /\ last' = Guarded("get_current_user_info", token, cur)
        /\ UNCHANGED <<now, ticks, settings, users, refresh_tokens, issued, next_jti>>
        /\ UNCHANGED <<vault_vars, password_of>>
        /\ security_events' = audited(security_events, last')

OptBool == {"None", "True", "False"}

\* PUT /users/me
update_current_user(token, username, email, is_active) ==
    LET cur == get_current_user(token, now)
        uid == cur.uid
        facts == [Guarded("update_current_user", token, cur) EXCEPT
                    !.username = username, !.email = email,
                    !.collides = (cur.status = "ok" /\
                        \/ username # Absent /\ NameHeldByOther(uid, username)
                        \/ email # Absent /\ EmailHeldByOther(uid, email))]
        renamed == username # Absent /\ username # users[uid].username
        remailed == email # Absent /\ email # users[uid].email
    IN  /\ IF cur.status # "ok"
           THEN /\ UNCHANGED users
                /\ last' = facts
           ELSE IF renamed /\ get_user_by_username(username) # NoId
           THEN /\ UNCHANGED users
                /\ last' = [facts EXCEPT !.outcome = "ConflictError",
                                         !.users_changed = (users' # users)]
           ELSE IF remailed /\ get_user_by_email(email) # NoId
           THEN /\ UNCHANGED users
                /\ last' = [facts EXCEPT !.outcome = "ConflictError",
                                         !.users_changed = (users' # users)]
           ELSE /\ users' = [users EXCEPT
                      ![uid].username = IF renamed THEN username ELSE @,
                      ![uid].email = IF remailed THEN email ELSE @,
                      ![uid].is_active = IF is_active = "None" THEN @
                                         ELSE (is_active = "True")]
                /\ last' = [facts EXCEPT !.users_changed = (users' # users)]
        /\ UNCHANGED <<now, ticks, settings, refresh_tokens, issued, next_jti>>
        /\ UNCHANGED <<vault_vars, password_of>>
        /\ security_events' = audited(security_events, last')

\* POST /auth/register as the framework serves it: the body is validated
\* into a UserCreate first, and register() runs only on a valid body
register_request(username, email, password) ==
    IF UserCreate(username, email, password)
    THEN register(username, email, password)
    ELSE /\ last' = [BlankLast EXCEPT
                       !.op = "register", !.at = now, !.username = username,
                       !.email = email, !.pwd = password,
                       !.outcome = "ValidationError"]
         /\ UNCHANGED <<now, ticks, settings, users, refresh_tokens, issued, next_jti>>
         /\ UNCHANGED <<vault_vars, password_of, audit_vars>>

\* PUT /users/me as the framework serves it: the dependency get_current_user
\* is resolved first, then the body is validated into a UserUpdate, and
\* update_current_user() runs only on a valid body
update_current_user_request(token, username, email, is_active) ==
    LET cur == get_current_user(token, now)
    IN  IF cur.status # "ok" \/ UserUpdate(username, email)
        THEN update_current_user(token, username, email, is_active)
        ELSE /\ last' = [Guarded("update_current_user", token, cur) EXCEPT
                           !.username = username, !.email = email,
                           !.outcome = "ValidationError"]
             /\ UNCHANGED <<now, ticks, settings, users, refresh_tokens, issued, next_jti>>
             /\ UNCHANGED <<vault_vars, password_of, audit_vars>>

\* POST /users/{user_id}/lock
lock_user(token, user_id) ==
    LET cur == get_current_superuser(token, now)
        facts == Guarded("lock_user", token, cur)
    IN  /\ IF cur.status # "ok"
           THEN /\ UNCHANGED users
                /\ last' = facts
           ELSE IF user_id = cur.uid
           THEN /\ UNCHANGED users
                /\ last' = [facts EXCEPT !.outcome = "ValidationError"]
           ELSE IF user_id \notin UserIds
           THEN /\ UNCHANGED users
                /\ last' = [facts EXCEPT !.outcome = "NotFound"]
           ELSE /\ users' = [users EXCEPT ![user_id] = lock_user_account(@, now)]
                /\ last' = [facts EXCEPT !.uid = user_id,
                                         !.users_changed = (users' # users)]
        /\ UNCHANGED <<now, ticks, settings, refresh_tokens, issued, next_jti>>
        /\ UNCHANGED <<vault_vars, password_of>>
        /\ security_events' = audited(security_events, last')

\* POST /users/{user_id}/unlock
\* unlock_user that zeroes the counter and leaves locked_until as it is
unlock_user_keeps_lock(token, user_id) ==
    LET cur == get_current_superuser(token, now)
        facts == Guarded("unlock_user", token, cur)
    IN  /\ IF cur.status # "ok"
           THEN /\ UNCHANGED users
                /\ last' = facts
           ELSE IF user_id \notin UserIds
           THEN /\ UNCHANGED users
                /\ last' = [facts EXCEPT !.outcome = "NotFound"]
           ELSE /\ users' = [users EXCEPT ![user_id].failed_login_attempts = 0]
                /\ last' = [facts EXCEPT !.uid = user_id,
                                         !.users_changed = (users' # users)]
        /\ UNCHANGED <<now, ticks, settings, refresh_tokens, issued, next_jti>>
        /\ UNCHANGED <<vault_vars, password_of>>
        /\ security_events' = audited(security_events, last')

unlock_user(token, user_id) ==
    LET cur == get_current_superuser(token, now)
        facts == Guarded("unlock_user", token, cur)
    IN  /\ IF cur.status # "ok"
           THEN /\ UNCHANGED users
                /\ last' = facts
           ELSE IF user_id \notin UserIds
           THEN /\ UNCHANGED users
                /\ last' = [facts EXCEPT !.outcome = "NotFound"]
           ELSE /\ users' = [users EXCEPT ![user_id].locked_until = NoneTime,
                                          ![user_id].failed_login_attempts = 0]
                /\ last' = [facts EXCEPT !.uid = user_id,
                                         !.users_changed = (users' # users)]
        /\ UNCHANGED <<now, ticks, settings, refresh_tokens, issued, next_jti>>
        /\ UNCHANGED <<vault_vars, password_of>>
        /\ security_events' = audited(security_events, last')

\* DELETE /users/{user_id}: the users row goes; no other table is touched
delete_user(token, user_id) ==
    LET cur == get_current_superuser(token, now)
        facts == Guarded("delete_user", token, cur)
    IN  /\ IF cur.status # "ok"
           THEN /\ UNCHANGED <<users, password_of>>
                /\ last' = facts
           ELSE IF user_id = cur.uid
           THEN /\ UNCHANGED <<users, password_of>>
                /\ last' = [facts EXCEPT !.outcome = "ValidationError"]
           ELSE IF user_id \notin UserIds
           THEN /\ UNCHANGED <<users, password_of>>
                /\ last' = [facts EXCEPT !.outcome = "NotFound"]
           ELSE /\ users' = [i \in UserIds \ {user_id} |-> users[i]]
                /\ password_of' = [i \in DOMAIN password_of \ {user_id} |->
                                      password_of[i]]
                /\ last' = [facts EXCEPT !.uid = user_id,
                                         !.users_changed = (users' # users)]
        /\ UNCHANGED <<now, ticks, settings, refresh_tokens, issued, next_jti>>
        /\ UNCHANGED vault_vars
        /\ security_events' = audited(security_events, last')

\* POST /security/tokens/cleanup
cleanup_tokens(token) ==
    LET cur == get_current_superuser(token, now)
        facts == Guarded("cleanup_tokens", token, cur)
        swept == cleanup_expired_tokens(refresh_tokens, now)
    IN  /\ IF cur.status # "ok"
           THEN /\ UNCHANGED refresh_tokens
                /\ last' = facts
           ELSE /\ refresh_tokens' = swept.rows
                /\ last' = [facts EXCEPT
                              !.count = swept.ret,
                              !.deleted = refresh_tokens \ refresh_tokens',
                              !.store_changed = (refresh_tokens' # refresh_tokens)]
        /\ UNCHANGED <<now, ticks, settings, users, issued, next_jti, password_of>>
        /\ UNCHANGED vault_vars
        /\ security_events' = audited(security_events, last')

\* ------------------------------------------------------------ health signal
\* the rows of security_events as the queries of GET /security/health find
\* them: kinds of row (event_type, severity, age in minutes) and how many of
\* each kind the table holds
RowKinds ==
    {[event_type |-> "failed_login", severity |-> "WARNING", age |-> 0],
     [event_type |-> "suspicious_request", severity |-> "ERROR", age |-> 60],
     [event_type |-> "security_error", severity |-> "CRITICAL", age |-> 0],
     [event_type |-> "suspicious_request", severity |-> "ERROR", age |-> 61],
     [event_type |-> "failed_login", severity |-> "WARNING", age |-> 61]}

RECURSIVE CountRows(_, _)
CountRows(table, kinds) ==
    IF kinds = {} THEN 0
    ELSE LET k == CHOOSE x \in kinds : TRUE
         IN  table[k] + CountRows(table, kinds \ {k})

\* lines 183-187 with each test made inclusive
health_status_inclusive(recent_events, failed_logins) ==
    IF recent_events >= 50 \/ failed_logins >= 100 THEN "critical"
    ELSE IF recent_events >= 10 \/ failed_logins >= 50 THEN "warning"
    ELSE "healthy"

\* routers/security.py lines 183-187
health_status(recent_events, failed_logins) ==
    IF recent_events > 50 \/ failed_logins > 100 THEN "critical"
    ELSE IF recent_events > 10 \/ failed_logins > 50 THEN "warning"
    ELSE "healthy"

\* GET /security/health, with `table` the rows the table holds at the call
security_health_check(token, table) ==
    LET cur == get_current_user(token, now)
        facts == [Guarded("security_health_check", token, cur) EXCEPT
                    !.found = table]
        since == now - 60
        recent_events ==
            CountRows(table, {k \in RowKinds :
                                /\ now - k.age >= since
                                /\ k.severity \in {"ERROR", "CRITICAL"}})
        locked_users ==
            Cardinality({i \in UserIds : users[i].locked_until # NoneTime /\
                                         users[i].locked_until > now})
        failed_logins ==
            CountRows(table, {k \in RowKinds :
                                /\ k.event_type = "failed_login"
                                /\ now - k.age >= since})
    IN  /\ IF cur.status # "ok"
           THEN last' = facts
           ELSE last' = [facts EXCEPT
                           !.health = [status |-> health_status(recent_events,
                                                                failed_logins),
                                       recent_critical_events |-> recent_events,
                                       locked_users |-> locked_users,
                                       failed_logins_last_hour |-> failed_logins]]
        /\ UNCHANGED <<now, ticks, settings, users, refresh_tokens, issued, next_jti>>
        /\ UNCHANGED <<vault_vars, password_of>>
        /\ security_events' = audited(security_events, last')

\* ------------------------------------------------------- security middleware
\* the status code the handler's own result reaches the middleware with
handler_status(call) ==
    CASE call.op = "register" /\ call.outcome = "ok" -> 201
      [] call.op = "logout" -> 200
      [] call.outcome = "ok" -> 200
      [] call.outcome \in {"AuthenticationFailure", "unauthenticated", "TokenInvalid"} -> 401
      [] call.outcome \in {"Inactive", "inactive", "forbidden"} -> 403
      [] call.outcome \in {"AccountLocked", "locked"} -> 423
      [] call.outcome = "NotFound" -> 404
      [] OTHER -> 400

\* SecurityMiddleware.dispatch around call_next.  raised: call_next raised;
\* slow: process_time > 5.0; testing: the TESTING environment variable is set.
\* `import os` stands inside the except branch only, so os is a local name of
\* dispatch that is unbound on the path where call_next returned: reading it
\* in the slow-request test raises UnboundLocalError out of the middleware,
\* which the application's Exception handler answers with a 500
dispatch_response(raised, status_code, slow, testing) ==
    IF raised
    THEN [status_code |-> 500, error |-> Absent]
    ELSE IF slow
    THEN [status_code |-> 500, error |-> "UnboundLocalError"]
    ELSE [status_code |-> status_code, error |-> Absent]

\* the same request on its way out through the middleware, after its handler
\* has returned
dispatch(slow, testing) ==
    /\ last.op # "init"
    /\ last.response = BlankLast.response
    /\ last' = [last EXCEPT
                  !.slow = slow,
                  !.response = dispatch_response(FALSE, handler_status(last),
                                                 slow, testing)]
    /\ security_events' =
          IF slow /\ ~testing /\ last'.response.error = Absent
          THEN log_security_event(security_events, "slow_request", NoId, now)
          ELSE security_events
    /\ UNCHANGED <<now, ticks, settings, users, refresh_tokens, issued, next_jti, password_of>>
    /\ UNCHANGED vault_vars

\* ------------------------------------------------------------- passwords
\* authenticate_user(db, username, password), called on its own
authenticate(username, password) ==
    LET uid == authenticate_user(username, password)
    IN  /\ last' = [BlankLast EXCEPT
                      !.op = "authenticate", !.at = now, !.uid = uid,
                      !.username = username, !.pwd = password,
                      !.outcome = IF uid = NoId THEN "None" ELSE "user"]
        /\ UNCHANGED <<now, ticks, settings, users, refresh_tokens, issued, next_jti,
                       password_of, vault_vars>>
        /\ UNCHANGED audit_vars

\* POST /auth/change-password
change_password(token, current_password, new_password) ==
    LET cur == get_current_user(token, now)
        facts == [Guarded("change_password", token, cur) EXCEPT
                    !.pwd = current_password,
                    !.pwd_checked = (cur.status = "ok"),
                    !.pwd_ok = (cur.status = "ok" /\ cur.uid \in DOMAIN password_of /\
                                password_of[cur.uid] = current_password)]
        user == get_user_by_id(cur.uid)
    IN  /\ IF cur.status # "ok"
           THEN /\ UNCHANGED <<users, password_of>>
                /\ last' = facts
           ELSE IF ~verify_password(current_password, users[user].hashed_password)
           THEN /\ UNCHANGED <<users, password_of>>
                /\ last' = [facts EXCEPT !.outcome = "ValidationError"]
           ELSE /\ users' = [users EXCEPT ![user].hashed_password =
                                             get_password_hash(new_password)]
                /\ password_of' = [password_of EXCEPT ![user] = new_password]
                /\ last' = [facts EXCEPT !.outcome = "ok",
                                         !.users_changed = (users' # users)]
        /\ UNCHANGED <<now, ticks, settings, refresh_tokens, issued, next_jti, vault_vars>>
        /\ security_events' = audited(security_events, last')

\* ------------------------------------------- lockout functions, called directly
\* increment_failed_login_attempts(db, user) on the row of user_id; no handler
\* calls it
increment(user_id) ==
    /\ user_id \in UserIds
    /\ users' = [users EXCEPT ![user_id] = increment_failed_login_attempts(@, now)]
    /\ last' = [BlankLast EXCEPT
                  !.op = "increment_failed_login_attempts", !.at = now,
                  !.uid = user_id, !.outcome = "ok",
                  !.count = users[user_id].failed_login_attempts,
                  !.users_changed = (users' # users)]
    /\ UNCHANGED <<now, ticks, settings, refresh_tokens, issued, next_jti>>
    /\ UNCHANGED <<vault_vars, password_of, audit_vars>>

\* ---------------------------------------------------------- codec, called directly
\* create_access_token(data, expires_delta) as the tests and the tools call it
issue_access_token(sub, user_id, expires_delta) ==
    /\ Cardinality(issued) < MaxMinted
    /\ issued' = issued \cup
           {Mint("create_access_token",
                 create_access_token([sub |-> sub, user_id |-> user_id],
                                     expires_delta, now),
                 sub, user_id, expires_delta, now)}
    /\ UNCHANGED <<now, ticks, settings, users, refresh_tokens, next_jti, last>>
    /\ UNCHANGED <<vault_vars, password_of>>
    /\ UNCHANGED audit_vars

\* create_refresh_token(user_id)
issue_refresh_token(user_id) ==
    /\ Cardinality(issued) < MaxMinted
    /\ issued' = issued \cup
           {Mint("create_refresh_token",
                 create_refresh_token(user_id, next_jti, now),
                 Absent, user_id, NoDelta, now)}
    /\ next_jti' = next_jti + 1
    /\ UNCHANGED <<now, ticks, settings, users, refresh_tokens, last>>
    /\ UNCHANGED <<vault_vars, password_of>>
    /\ UNCHANGED audit_vars

\* verify_token(token, token_type)
verify(token, token_type) ==
    /\ last' = [BlankLast EXCEPT !.op = "verify_token", !.at = now, !.tok = token,
                                 !.expected = token_type,
                                 !.data = verify_token(token, token_type, now)]
    /\ UNCHANGED <<now, ticks, settings, users, refresh_tokens, issued, next_jti>>
    /\ UNCHANGED <<vault_vars, password_of>>
    /\ UNCHANGED audit_vars

\* what an attacker can send: signed tokens and altered copies of them
Forgeable ==
    IssuedTokens \cup {Tamper(k) : k \in IssuedTokens}
                 \cup {Retyped(k) : k \in IssuedTokens} \cup {Garbage}

Deltas == {NoDelta, Delta(-1), Delta(0), Delta(1)}

\* ------------------------------------------------------------- OAuth2 vault
\* app/oauth2_service.py OAuth2TokenManager over the oauth2_tokens table
VaultUsers == {1, 2}
Services == {"github", "google"}
VaultSteps == {2}

\* Optional[int] expires_in, in seconds
NoTtl == [given |-> FALSE, seconds |-> 0]
Ttl(s) == [given |-> TRUE, seconds |-> s]
\* Python truth value of an Optional[int]: None and 0 are falsy
TtlTruthy(expires_in) == expires_in.given /\ expires_in.seconds # 0
\* timedelta(seconds=expires_in) on the model's clock of minutes
timedelta_seconds(s) == s \div 60

\* Optional[datetime] expires_at
NoExpiry == [given |-> FALSE, at |-> 0]
ExpiresAt(t) == [given |-> TRUE, at |-> t]

\* Fernet: a ciphertext opens only under the key it was made with, and only
\* if it was not altered afterwards
NoCipher == [key |-> 0, plain |-> Absent, intact |-> TRUE]
encrypt_token(key, token) == [key |-> key, plain |-> token, intact |-> TRUE]
decrypt_token(key, encrypted_token) ==
    IF encrypted_token.intact /\ encrypted_token.key = key
    THEN [raised |-> FALSE, plain |-> encrypted_token.plain]
    ELSE [raised |-> TRUE, plain |-> Absent]

\* OAuth2Token.scope.contains(scope): substring match on the scope string
ScopeContains(row_scope, scope) ==
    <<row_scope, scope>> \in {<<"read", "read">>, <<"read write", "read">>,
                              <<"read write", "write">>,
                              <<"read write", "read write">>}

\* query.first(): the matching row with the lowest id, 0 for None
First(ids) == IF ids = {} THEN 0 ELSE CHOOSE i \in ids : \A j \in ids : i <= j

\* the filter user_id == ..., service_name == ..., is_active IS TRUE
ActiveRows_any_user(rows, user_id, service_name) ==
    {i \in DOMAIN rows : rows[i].service_name = service_name /\ rows[i].is_active}

ActiveRows(rows, user_id, service_name) ==
    {i \in DOMAIN rows : /\ rows[i].user_id = user_id
                         /\ rows[i].service_name = service_name
                         /\ rows[i].is_active}

\* store_token, lines 43-53: the lookup of an existing active row
store_lookup_none(rows, user_id, service_name) == 0

store_lookup(rows, user_id, service_name) ==
    First(ActiveRows(rows, user_id, service_name))

\* store_token, lines 55-60: the expiry the call asks for
store_expires_at(token_data, t) ==
    IF TtlTruthy(token_data.expires_in)
    THEN ExpiresAt(t + timedelta_seconds(token_data.expires_in.seconds))
    ELSE NoExpiry

\* store_token, lines 62-74: the existing active row updated in place
update_existing_token_keeps_access(row, key, token_data, t) ==
    [row EXCEPT
       !.refresh_token = IF token_data.refresh_token # Absent
                         THEN encrypt_token(key, token_data.refresh_token) ELSE @,
       !.token_type = token_data.token_type,
       !.expires_at = store_expires_at(token_data, t),
       !.scope = token_data.scope,
       !.client_id = token_data.client_id,
       !.updated_at = t,
       !.last_used_at = t]

update_existing_token(row, key, token_data, t) ==
    [row EXCEPT
       !.access_token = encrypt_token(key, token_data.access_token),
       !.refresh_token = IF token_data.refresh_token # Absent
                         THEN encrypt_token(key, token_data.refresh_token) ELSE @,
       !.token_type = token_data.token_type,
       !.expires_at = store_expires_at(token_data, t),
       !.scope = token_data.scope,
       !.client_id = token_data.client_id,
       !.updated_at = t,
       !.last_used_at = t]

\* store_token, lines 90-103: a new row; is_active, created_at and updated_at
\* take the column defaults
new_token(id, key, user_id, token_data, t) ==
    [id |-> id,
     user_id |-> user_id,
     service_name |-> token_data.service_name,
     access_token |-> encrypt_token(key, token_data.access_token),
     refresh_token |-> IF token_data.refresh_token # Absent
                       THEN encrypt_token(key, token_data.refresh_token)
                       ELSE NoCipher,
     token_type |-> token_data.token_type,
     expires_at |-> store_expires_at(token_data, t),
     scope |-> token_data.scope,
     client_id |-> token_data.client_id,
     is_active |-> TRUE,
     created_at |-> t, updated_at |-> t, last_used_at |-> t]

\* store_token, lines 62-118: what is written once the lookup has answered
store_write(rows, key, existing, user_id, token_data, t) ==
    IF existing # 0
    THEN [rows |-> [rows EXCEPT
                      ![existing] = update_existing_token(@, key, token_data, t)],
          ret |-> existing]
    ELSE [rows |-> Append(rows, new_token(Len(rows) + 1, key, user_id, token_data, t)),
          ret |-> Len(rows) + 1]

store_token(rows, key, user_id, token_data, t) ==
    store_write(rows, key, store_lookup(rows, user_id, token_data.service_name),
                user_id, token_data, t)

\* get_token; every UPDATE of a row also sets updated_at (models.py: the
\* column's onupdate=func.now()) unless the statement sets it itself
get_token_no_expiry_check(rows, user_id, service_name, scope, t) ==
    LET matches == {i \in ActiveRows(rows, user_id, service_name) :
                       scope = Absent \/ ScopeContains(rows[i].scope, scope)}
        token == First(matches)
    IN  IF token = 0 THEN [rows |-> rows, ret |-> 0]
        ELSE [rows |-> [rows EXCEPT ![token].last_used_at = t,
                                    ![token].updated_at = t],
              ret |-> token]

get_token(rows, user_id, service_name, scope, t) ==
    LET matches == {i \in ActiveRows(rows, user_id, service_name) :
                       scope = Absent \/ ScopeContains(rows[i].scope, scope)}
        token == First(matches)
    IN  IF token = 0 THEN [rows |-> rows, ret |-> 0]
        ELSE IF rows[token].expires_at.given /\ rows[token].expires_at.at < t
        THEN [rows |-> [rows EXCEPT ![token].is_active = FALSE,
                                    ![token].updated_at = t],
              ret |-> 0]
        ELSE [rows |-> [rows EXCEPT ![token].last_used_at = t,
                                    ![token].updated_at = t],
              ret |-> token]

\* get_decrypted_token: the plaintext, None, or the exception _decrypt_token
\* lets through (get_token has committed by then)
get_decrypted_token(rows, key, user_id, service_name, scope, t) ==
    LET got == get_token(rows, user_id, service_name, scope, t)
    IN  IF got.ret # 0
        THEN LET opened == decrypt_token(key, got.rows[got.ret].access_token)
             IN  [rows |-> got.rows, ret |-> got.ret,
                  raised |-> opened.raised, plain |-> opened.plain]
        ELSE [rows |-> got.rows, ret |-> 0, raised |-> FALSE, plain |-> Absent]

revoke_token_keeps_active(rows, user_id, service_name, t) ==
    LET token == First(ActiveRows(rows, user_id, service_name))
    IN  IF token # 0
        THEN [rows |-> [rows EXCEPT ![token].updated_at = t], ret |-> TRUE]
        ELSE [rows |-> rows, ret |-> FALSE]

revoke_token(rows, user_id, service_name, t) ==
    LET token == First(ActiveRows(rows, user_id, service_name))
    IN  IF token # 0
        THEN [rows |-> [rows EXCEPT ![token].is_active = FALSE,
                                    ![token].updated_at = t],
              ret |-> TRUE]
        ELSE [rows |-> rows, ret |-> FALSE]

get_user_tokens(rows, user_id, active_only) ==
    {i \in DOMAIN rows : /\ rows[i].user_id = user_id
                         /\ (active_only => rows[i].is_active)}

\* OAuth2TokenManager.cleanup_expired_tokens
\* cleanup_expired_tokens without the is_active filter of its query
cleanup_expired_oauth2_tokens_any_row(rows, t) ==
    LET expired_tokens == {i \in DOMAIN rows : /\ rows[i].expires_at.given
                                               /\ rows[i].expires_at.at < t}
    IN  [rows |-> [i \in DOMAIN rows |->
                      IF i \in expired_tokens
                      THEN [rows[i] EXCEPT !.is_active = FALSE, !.updated_at = t]
                      ELSE rows[i]],
         ret |-> Cardinality(expired_tokens)]

cleanup_expired_oauth2_tokens(rows, t) ==
    LET expired_tokens == {i \in DOMAIN rows : /\ rows[i].expires_at.given
                                               /\ rows[i].expires_at.at < t
                                               /\ rows[i].is_active}
    IN  [rows |-> [i \in DOMAIN rows |->
                      IF i \in expired_tokens
                      THEN [rows[i] EXCEPT !.is_active = FALSE, !.updated_at = t]
                      ELSE rows[i]],
         ret |-> Cardinality(expired_tokens)]

\* PUT /oauth/tokens/{service_name}; oauth2_web.py never imports timedelta,
\* so a request that carries expires_in ends in a NameError before the commit
update_token(rows, key, user_id, service_name, token_update, t) ==
    LET token == First(ActiveRows(rows, user_id, service_name))
    IN  IF token = 0 THEN [rows |-> rows, status |-> "NotFound"]
        ELSE IF TtlTruthy(token_update.expires_in)
        THEN [rows |-> rows, status |-> "NameError"]
        ELSE [rows |-> [rows EXCEPT
                  ![token].access_token =
                      IF token_update.access_token # Absent
                      THEN encrypt_token(key, token_update.access_token) ELSE @,
                  ![token].refresh_token =
                      IF token_update.refresh_token # Absent
                      THEN encrypt_token(key, token_update.refresh_token) ELSE @,
                  ![token].scope =
                      IF token_update.scope # Absent THEN token_update.scope ELSE @,
                  ![token].is_active =
                      IF token_update.is_active = "None" THEN @
                      ELSE (token_update.is_active = "True"),
                  ![token].updated_at = t],
              status |-> "ok"]

\* OAuth2TokenCreate bodies: one with every optional field, one with none
NoArgs ==
    [service_name |-> Absent, access_token |-> Absent, refresh_token |-> Absent,
     token_type |-> Absent, expires_in |-> NoTtl, scope |-> Absent,
     client_id |-> Absent]

TokenCreates(service_name) ==
    {[service_name |-> service_name, access_token |-> "A", refresh_token |-> "R",
      token_type |-> "Bearer", expires_in |-> Ttl(60), scope |-> "read",
      client_id |-> "cid"],
     [service_name |-> service_name, access_token |-> "B", refresh_token |-> Absent,
      token_type |-> "MAC", expires_in |-> NoTtl, scope |-> "read write",
      client_id |-> Absent]}

\* OAuth2TokenUpdate bodies: a new access token for a token kept active, a
\* deactivation, a new expiry
TokenUpdates ==
    {[access_token |-> "C", refresh_token |-> Absent, expires_in |-> NoTtl,
      scope |-> Absent, is_active |-> "True"],
     [access_token |-> Absent, refresh_token |-> Absent, expires_in |-> NoTtl,
      scope |-> Absent, is_active |-> "False"],
     [access_token |-> Absent, refresh_token |-> Absent, expires_in |-> Ttl(60),
      scope |-> Absent, is_active |-> "None"]}

FetchScopes == {Absent, "write"}

\* ---------------------------------------------------- record of the last vault call
BlankVault ==
    [op |-> "init", user_id |-> 0, service_name |-> Absent, scope |-> Absent,
     token_data |-> NoArgs, ret |-> 0, ok |-> FALSE, raised |-> FALSE,
     plain |-> Absent, listed |-> {}, status |-> "", at |-> 0]

\* per (user, service): the last store's plaintext, ttl and time, the plaintext
\* written last by store or update, and how the token was ended since
Pairs == VaultUsers \X Services
NoHistory ==
    [plain |-> Absent, expires_in |-> NoTtl, stored_at |-> 0, written |-> Absent,
     ended |-> ""]

\* a store_token call caught between its lookup and its commit
Procs == {"p1", "p2"}
Idle == [phase |-> "idle", user_id |-> 0, token_data |-> NoArgs, existing |-> 0,
         selected |-> {}, user_data |-> Absent, read_at |-> 0]

InitVault ==
    /\ oauth2_tokens = <<>>
    /\ cipher_key = 1
    /\ history = [pr \in Pairs |-> NoHistory]
    /\ vlast = BlankVault
    /\ pending = [p \in Procs |-> Idle]

\* the process is up: config.py line 73 has built the settings
Init == InitAccounts /\ InitVault /\ settings = Settings(Absent)

\* the process before its modules are imported
InitStartup == InitAccounts /\ InitVault /\ settings = NoSettings

\* the import of app.config under an environment: `settings = Settings()`
\* either binds the settings or raises, and then nothing of the application
\* is loaded
startup(env_secret_key) ==
    /\ ~settings.constructed
    /\ settings' = Settings(env_secret_key)
    /\ last' = [BlankLast EXCEPT
                  !.op = "Settings", !.at = now,
                  !.outcome = IF settings'.constructed THEN "ok"
                              ELSE "ValidationError"]
    /\ UNCHANGED <<now, ticks, users, refresh_tokens, issued, next_jti, password_of>>
    /\ UNCHANGED <<vault_vars, audit_vars>>

\* store_token run as one transaction
vault_store(user_id, token_data) ==
    LET stored == store_token(oauth2_tokens, cipher_key, user_id, token_data, now)
    IN  /\ Len(stored.rows) <= MaxVaultRows
        /\ oauth2_tokens' = stored.rows
        /\ history' = [history EXCEPT ![<<user_id, token_data.service_name>>] =
                          [plain |-> token_data.access_token,
                           expires_in |-> token_data.expires_in,
                           stored_at |-> now,
                           written |-> token_data.access_token,
                           ended |-> ""]]
        /\ vlast' = [BlankVault EXCEPT
                       !.op = "store", !.at = now, !.user_id = user_id,
                       !.service_name = token_data.service_name,
                       !.token_data = token_data, !.ret = stored.ret]
        /\ UNCHANGED <<now, ticks, settings, account_vars, cipher_key, pending>>
        /\ security_events' = log_security_event(security_events,
               IF store_lookup(oauth2_tokens, user_id, token_data.service_name) # 0
               THEN "oauth2_token_updated" ELSE "oauth2_token_created",
               user_id, now)

vault_fetch(user_id, service_name, scope) ==
    LET got == get_token(oauth2_tokens, user_id, service_name, scope, now)
    IN  /\ oauth2_tokens' = got.rows
        /\ vlast' = [BlankVault EXCEPT
                       !.op = "fetch", !.at = now, !.user_id = user_id,
                       !.service_name = service_name, !.scope = scope,
                       !.ret = got.ret]
        /\ UNCHANGED <<now, ticks, settings, account_vars, cipher_key, history, pending>>
        /\ UNCHANGED audit_vars

vault_fetch_decrypted(user_id, service_name, scope) ==
    LET got == get_decrypted_token(oauth2_tokens, cipher_key, user_id,
                                   service_name, scope, now)
    IN  /\ oauth2_tokens' = got.rows
        /\ vlast' = [BlankVault EXCEPT
                       !.op = "fetch_decrypted", !.at = now, !.user_id = user_id,
                       !.service_name = service_name, !.scope = scope,
                       !.ret = got.ret, !.raised = got.raised, !.plain = got.plain]
        /\ UNCHANGED <<now, ticks, settings, account_vars, cipher_key, history, pending>>
        /\ UNCHANGED audit_vars

vault_revoke(user_id, service_name) ==
    LET revoked == revoke_token(oauth2_tokens, user_id, service_name, now)
    IN  /\ oauth2_tokens' = revoked.rows
        /\ history' = [history EXCEPT ![<<user_id, service_name>>].ended =
                          IF revoked.ret THEN "revoked" ELSE @]
        /\ vlast' = [BlankVault EXCEPT
                       !.op = "revoke", !.at = now, !.user_id = user_id,
                       !.service_name = service_name, !.ok = revoked.ret]
        /\ UNCHANGED <<now, ticks, settings, account_vars, cipher_key, pending>>
        /\ security_events' =
               IF revoked.ret
               THEN log_security_event(security_events, "oauth2_token_revoked",
                                       user_id, now)
               ELSE security_events

vault_list(user_id, active_only) ==
    /\ vlast' = [BlankVault EXCEPT
                   !.op = "list", !.at = now, !.user_id = user_id,
                   !.ok = active_only,
                   !.listed = get_user_tokens(oauth2_tokens, user_id, active_only)]
    /\ UNCHANGED <<now, ticks, settings, account_vars, oauth2_tokens, cipher_key, history,
                   pending>>
    /\ UNCHANGED audit_vars

vault_update(user_id, service_name, token_update) ==
    LET updated == update_token(oauth2_tokens, cipher_key, user_id, service_name,
                                token_update, now)
    IN  /\ oauth2_tokens' = updated.rows
        /\ history' = [history EXCEPT
               ![<<user_id, service_name>>].written =
                   IF updated.status = "ok" /\ token_update.access_token # Absent
                   THEN token_update.access_token ELSE @,
               ![<<user_id, service_name>>].ended =
                   IF updated.status = "ok" /\ token_update.is_active = "False"
                   THEN "deactivated" ELSE @]
        /\ vlast' = [BlankVault EXCEPT
                       !.op = "update", !.at = now, !.user_id = user_id,
                       !.service_name = service_name, !.status = updated.status]
        /\ UNCHANGED <<now, ticks, settings, account_vars, cipher_key, pending>>
        /\ security_events' =
               IF updated.status = "ok"
               THEN log_security_event(security_events, "oauth2_token_updated",
                                       user_id, now)
               ELSE security_events

vault_sweep ==
    LET swept == cleanup_expired_oauth2_tokens(oauth2_tokens, now)
    IN  /\ oauth2_tokens' = swept.rows
        /\ vlast' = [BlankVault EXCEPT !.op = "sweep", !.at = now,
                                       !.ret = swept.ret]
        /\ UNCHANGED <<now, ticks, settings, account_vars, cipher_key, history, pending>>
        /\ security_events' =
               IF swept.ret > 0
               THEN log_security_event(security_events, "oauth2_tokens_cleanup",
                                       NoId, now)
               ELSE security_events

\* two requests inside store_token at once, each in its own session: the
\* lookup (lines 43-53) and, later, the write and commit (lines 55-118)
store_begin(p, user_id, token_data) ==
    /\ pending[p].phase = "idle"
    /\ pending' = [pending EXCEPT ![p] =
                      [phase |-> "looked", user_id |-> user_id,
                       token_data |-> token_data, selected |-> {},
                       user_data |-> Absent,
                       existing |-> store_lookup(oauth2_tokens, user_id,
                                                 token_data.service_name)]]
    /\ UNCHANGED <<now, ticks, settings, account_vars, oauth2_tokens, cipher_key, history,
                   vlast>>
    /\ UNCHANGED audit_vars

store_commit(p) ==
    LET stored == store_write(oauth2_tokens, cipher_key, pending[p].existing,
                              pending[p].user_id, pending[p].token_data, now)
    IN  /\ pending[p].phase = "looked"
        /\ Len(stored.rows) <= MaxVaultRows
        /\ oauth2_tokens' = stored.rows
        /\ pending' = [pending EXCEPT ![p] = Idle]
        /\ vlast' = [BlankVault EXCEPT
                       !.op = "store", !.at = now, !.user_id = pending[p].user_id,
                       !.service_name = pending[p].token_data.service_name,
                       !.token_data = pending[p].token_data, !.ret = stored.ret]
        /\ UNCHANGED <<now, ticks, settings, account_vars, cipher_key, history>>
        /\ security_events' = log_security_event(security_events,
               IF pending[p].existing # 0
               THEN "oauth2_token_updated" ELSE "oauth2_token_created",
               pending[p].user_id, now)

\* ------------------------------------------- refresh-token store, calls in flight
\* two sessions inside cleanup_expired_tokens or revoke_refresh_token at once:
\* the query (security.py line 196, lines 177-184) and, later, the flush and
\* commit of what the session changed (lines 198-201, 186-189).  The ORM
\* deletes and updates by primary key, here the row's token_hash: a DELETE
\* that matches no row only warns, an UPDATE that matches no row raises
\* StaleDataError
HashesOf(rows) == {r.token_hash : r \in rows}

sweep_begin(p) ==
    /\ pending[p].phase = "idle"
    /\ pending' = [pending EXCEPT ![p] =
                      [Idle EXCEPT !.phase = "sweeping",
                                   !.selected = {r \in refresh_tokens :
                                                    r.expires_at < now}]]
    /\ UNCHANGED <<now, ticks, settings, account_vars, oauth2_tokens, cipher_key, history,
                   vlast>>
    /\ UNCHANGED audit_vars

sweep_commit(p) ==
    LET gone == {r \in refresh_tokens :
                    r.token_hash \in HashesOf(pending[p].selected)}
    IN  /\ pending[p].phase = "sweeping"
        /\ refresh_tokens' = refresh_tokens \ gone
        /\ pending' = [pending EXCEPT ![p] = Idle]
        /\ last' = [BlankLast EXCEPT
                      !.op = "cleanup_expired_tokens", !.at = now,
                      !.outcome = "ok",
                      !.count = Cardinality(pending[p].selected),
                      !.deleted = gone,
                      !.store_changed = (refresh_tokens' # refresh_tokens)]
        /\ UNCHANGED <<now, ticks, settings, users, issued, next_jti, password_of>>
        /\ UNCHANGED <<oauth2_tokens, cipher_key, history, vlast>>
        /\ UNCHANGED audit_vars

revoke_begin(p, token) ==
    /\ pending[p].phase = "idle"
    /\ pending' = [pending EXCEPT ![p] =
                      [Idle EXCEPT
                         !.phase = "revoking",
                         !.selected =
                             IF RevocableRows(refresh_tokens, token) = {} THEN {}
                             ELSE {CHOOSE r \in RevocableRows(refresh_tokens, token) :
                                       TRUE}]]
    /\ UNCHANGED <<now, ticks, settings, account_vars, oauth2_tokens, cipher_key, history,
                   vlast>>
    /\ UNCHANGED audit_vars

revoke_commit(p) ==
    LET found == pending[p].selected
        target == {r \in refresh_tokens : r.token_hash \in HashesOf(found)}
        facts == [BlankLast EXCEPT !.op = "revoke_refresh_token", !.at = now]
    IN  /\ pending[p].phase = "revoking"
        /\ pending' = [pending EXCEPT ![p] = Idle]
        /\ IF found = {}
           THEN /\ UNCHANGED refresh_tokens
                /\ last' = [facts EXCEPT !.ret = FALSE, !.outcome = "False"]
           ELSE IF target = {}
           THEN /\ UNCHANGED refresh_tokens
                /\ last' = [facts EXCEPT !.raised = TRUE,
                                         !.outcome = "StaleDataError"]
           ELSE /\ refresh_tokens' = (refresh_tokens \ target) \cup
                                        {[r EXCEPT !.is_revoked = TRUE] : r \in target}
                /\ last' = [facts EXCEPT
                              !.ret = TRUE, !.outcome = "True",
                              !.store_changed = (refresh_tokens' # refresh_tokens)]
        /\ UNCHANGED <<now, ticks, settings, users, issued, next_jti, password_of>>
        /\ UNCHANGED <<oauth2_tokens, cipher_key, history, vlast>>
        /\ UNCHANGED audit_vars

\* ------------------------------------------------ registrations in flight
\* two requests inside register() at once, each in its own session: the two
\* lookups (routers/auth.py lines 36-60) and, later, the insert and commit
\* (lines 63-72).  The unique indexes on users.username and users.email
\* (models.py lines 15-16) refuse a second row: the commit raises
\* IntegrityError, which register() does not catch
register_begin(p, username, email, password) ==
    LET facts == [BlankLast EXCEPT
                    !.op = "register", !.at = now, !.username = username,
                    !.email = email, !.pwd = password, !.queried = TRUE,
                    !.collides = (NameHeldByOther(NoId, username) \/
                                  EmailHeldByOther(NoId, email))]
    IN  /\ pending[p].phase = "idle"
        /\ IF get_user_by_username(username) # NoId \/ get_user_by_email(email) # NoId
           THEN /\ UNCHANGED pending
                /\ last' = [facts EXCEPT !.outcome = "ConflictError"]
                /\ security_events' = audited(security_events, last')
           ELSE /\ pending' = [pending EXCEPT ![p] =
                                  [Idle EXCEPT
                                     !.phase = "checked",
                                     !.user_data = [username |-> username,
                                                    email |-> email,
                                                    password |-> password]]]
                /\ UNCHANGED <<last, security_events>>
        /\ UNCHANGED <<now, ticks, settings, users, refresh_tokens, issued, next_jti, password_of>>
        /\ UNCHANGED <<oauth2_tokens, cipher_key, history, vlast>>

register_commit(p) ==
    LET user_data == pending[p].user_data
        facts == [BlankLast EXCEPT
                    !.op = "register", !.at = now, !.username = user_data.username,
                    !.email = user_data.email, !.pwd = user_data.password,
                    !.queried = TRUE, !.hashed = TRUE,
                    !.collides = (NameHeldByOther(NoId, user_data.username) \/
                                  EmailHeldByOther(NoId, user_data.email))]
    IN  /\ pending[p].phase = "checked"
        /\ pending' = [pending EXCEPT ![p] = Idle]
        /\ IF NameHeldByOther(NoId, user_data.username) \/
              EmailHeldByOther(NoId, user_data.email)
           THEN /\ UNCHANGED <<users, password_of, security_events>>
                /\ last' = [facts EXCEPT !.raised = TRUE,
                                         !.outcome = "IntegrityError"]
           ELSE /\ Cardinality(UserIds) < MaxUsers
                /\ users' = users @@ (NextUserId :>
                              NewUser(NextUserId, user_data.username, user_data.email,
                                      user_data.password, FALSE, FALSE))
                /\ password_of' = password_of @@ (NextUserId :> user_data.password)
                /\ last' = [facts EXCEPT !.uid = NextUserId, !.outcome = "ok",
                                         !.users_changed = (users' # users)]
                /\ security_events' = audited(security_events, last')
        /\ UNCHANGED <<now, ticks, settings, refresh_tokens, issued, next_jti>>
        /\ UNCHANGED <<oauth2_tokens, cipher_key, history, vlast>>

\* --------------------------------------------- vault reads and sweeps in flight
\* get_token in its own session: the query and the expiry test (lines
\* 122-140), and later the commit of what it set on the row it loaded (lines
\* 141-149).  The session writes only the attributes it set
get_token_begin(p, user_id, service_name) ==
    LET token == First(ActiveRows(oauth2_tokens, user_id, service_name))
        expired == /\ oauth2_tokens[token].expires_at.given
                   /\ oauth2_tokens[token].expires_at.at < now
    IN  /\ pending[p].phase = "idle"
        /\ token # 0
        /\ pending' = [pending EXCEPT ![p] =
                          [Idle EXCEPT
                             !.phase = IF expired THEN "expired" ELSE "live",
                             !.user_id = user_id,
                             !.token_data = [NoArgs EXCEPT
                                               !.service_name = service_name],
                             !.existing = token]]
        /\ UNCHANGED <<now, ticks, settings, account_vars, oauth2_tokens, cipher_key,
                       history, vlast>>
        /\ UNCHANGED audit_vars

get_token_commit(p) ==
    LET token == pending[p].existing
    IN  /\ pending[p].phase \in {"expired", "live"}
        /\ oauth2_tokens' =
               IF pending[p].phase = "expired"
               THEN [oauth2_tokens EXCEPT ![token].is_active = FALSE,
                                          ![token].updated_at = now]
               ELSE [oauth2_tokens EXCEPT ![token].last_used_at = now,
                                          ![token].updated_at = now]
        /\ pending' = [pending EXCEPT ![p] = Idle]
        /\ vlast' = [BlankVault EXCEPT
                       !.op = "fetch", !.at = now, !.user_id = pending[p].user_id,
                       !.service_name = pending[p].token_data.service_name,
                       !.ret = IF pending[p].phase = "expired" THEN 0 ELSE token]
        /\ UNCHANGED <<now, ticks, settings, account_vars, cipher_key, history>>
        /\ UNCHANGED audit_vars

\* cleanup_expired_tokens in its own session: the query (lines 211-216), and
\* later the commit of is_active and updated_at on the rows it loaded
cleanup_begin(p) ==
    /\ pending[p].phase = "idle"
    /\ pending' = [pending EXCEPT ![p] =
                      [Idle EXCEPT
                         !.phase = "cleaning",
                         !.read_at = now,
                         !.selected = {i \in DOMAIN oauth2_tokens :
                                          /\ oauth2_tokens[i].expires_at.given
                                          /\ oauth2_tokens[i].expires_at.at < now
                                          /\ oauth2_tokens[i].is_active}]]
    /\ UNCHANGED <<now, ticks, settings, account_vars, oauth2_tokens, cipher_key,
                   history, vlast>>
    /\ UNCHANGED audit_vars

cleanup_commit(p) ==
    LET expired_tokens == pending[p].selected
    IN  /\ pending[p].phase = "cleaning"
        /\ oauth2_tokens' =
               [i \in DOMAIN oauth2_tokens |->
                   IF i \in expired_tokens
                   THEN [oauth2_tokens[i] EXCEPT !.is_active = FALSE,
                                                 !.updated_at = pending[p].read_at]
                   ELSE oauth2_tokens[i]]
        /\ pending' = [pending EXCEPT ![p] = Idle]
        /\ vlast' = [BlankVault EXCEPT !.op = "sweep", !.at = now,
                                       !.ret = Cardinality(expired_tokens)]
        /\ UNCHANGED <<now, ticks, settings, account_vars, cipher_key, history>>
        /\ security_events' =
               IF Cardinality(expired_tokens) > 0
               THEN log_security_event(security_events, "oauth2_tokens_cleanup",
                                       NoId, now)
               ELSE security_events

\* the process starts again: the module-level OAuth2TokenManager() draws a
\* fresh Fernet key (oauth2_web.py line 29, oauth2_service.py lines 25-28)
restart ==
    /\ cipher_key <= MaxRestarts
    /\ cipher_key' = cipher_key + 1
    /\ UNCHANGED <<now, ticks, settings, account_vars, oauth2_tokens, history, vlast, pending>>
    /\ UNCHANGED audit_vars

\* the stored access-token ciphertext of a row is damaged in the database
corrupt(i) ==
    /\ i \in DOMAIN oauth2_tokens
    /\ oauth2_tokens[i].access_token.intact
    /\ oauth2_tokens' = [oauth2_tokens EXCEPT ![i].access_token.intact = FALSE]
    /\ UNCHANGED <<now, ticks, settings, account_vars, cipher_key, history, vlast, pending>>
    /\ UNCHANGED audit_vars

\* ------------------------------------------------------------- specification
\* accounts: one superuser made by the script, one self-registered user
Next ==
    \/ \E d \in GuardSteps : Tick(d)
    \/ \E p \in NewPasswords : register("alice", "alice@x.com", p)
    \/ \E p \in NewPasswords : create_superuser("root", "root@x.com", p)
    \/ \E u \in {"alice", "root"}, p \in Passwords : login(u, p)
    \/ login("nobody", "Str0ng!Pass")
    \/ \E k \in RefreshCandidates : refresh_token(k)
    \/ \E k \in Bearers : update_current_user(k, Absent, Absent, "False")
    \/ \E k \in Bearers, i \in 1..MaxUsers : lock_user(k, i)
    \/ \E k \in Bearers, i \in 1..MaxUsers : unlock_user(k, i)

Spec == Init /\ [][Next]_vars

\* the refresh-token store: logins, redemptions and revocations
NextStore ==
    \/ \E d \in StoreSteps : Tick(d)
    \/ \E u \in Usernames, e \in Emails, p \in NewPasswords : register(u, e, p)
    \/ \E u \in Usernames, p \in Passwords : next_jti <= MaxSessions /\ login(u, p)
    \/ \E k \in Presentable : refresh_token(k)
    \/ \E k \in Presentable : logout(k)

SpecStore == Init /\ [][NextStore]_vars

\* the token codec on its own
NextCodec ==
    \/ \E d \in CodecSteps : Tick(d)
    \/ \E u \in {"alice", Absent}, i \in {1, NoId}, d \in Deltas :
          issue_access_token(u, i, d)
    \/ \E i \in {1} : issue_refresh_token(i)
    \/ \E k \in Forgeable, ty \in TokenTypes : verify(k, ty)

SpecCodec == Init /\ [][NextCodec]_vars

\* the vault, one call at a time
NextVault ==
    \/ \E d \in VaultSteps : Tick(d)
    \/ \E td \in TokenCreates("github") : vault_store(1, td)
    \/ \E sc \in FetchScopes : vault_fetch(1, "github", sc)
    \/ vault_fetch_decrypted(1, "github", Absent)
    \/ vault_revoke(1, "github")
    \/ \E tu \in TokenUpdates : vault_update(1, "github", tu)
    \/ vault_sweep

SpecVault == Init /\ [][NextVault]_vars

\* concurrent stores, with revocations in between
NextVaultRace ==
    \/ \E d \in VaultSteps : Tick(d)
    \/ \E p \in Procs : \E td \in TokenCreates("github") : store_begin(p, 1, td)
    \/ \E p \in Procs : store_commit(p)
    \/ vault_revoke(1, "github")

SpecVaultRace == Init /\ [][NextVaultRace]_vars

\* the vault with a damaged row or a lost key
NextVaultFault ==
    \/ \E d \in VaultSteps : Tick(d)
    \/ \E td \in TokenCreates("github") : vault_store(1, td)
    \/ vault_fetch_decrypted(1, "github", Absent)
    \/ vault_revoke(1, "github")
    \/ restart
    \/ \E i \in 1..MaxVaultRows : corrupt(i)

SpecVaultFault == Init /\ [][NextVaultFault]_vars

\* the vault of two users and two services: every pair stores, and the pairs
\* that share a user or a service with (1, "github") read and revoke
ScopedPairs == {<<1, "github">>, <<1, "google">>, <<2, "github">>}
ProbingPairs == {<<1, "google">>, <<2, "github">>}

NextVaultScope ==
    \/ \E d \in VaultSteps : Tick(d)
    \/ \E pr \in ScopedPairs :
          vault_store(pr[1], CHOOSE td \in TokenCreates(pr[2]) : td.access_token = "A")
    \/ \E pr \in ProbingPairs : vault_fetch(pr[1], pr[2], Absent)
    \/ \E pr \in ProbingPairs : vault_fetch_decrypted(pr[1], pr[2], Absent)
    \/ \E pr \in ProbingPairs : vault_revoke(pr[1], pr[2])
    \/ \E u \in VaultUsers : vault_list(u, TRUE)

SpecVaultScope == Init /\ [][NextVaultScope]_vars

\* passwords: two registered users who log in and change their passwords
\* the current-user dependency: a user who can rename or switch off their own
\* account, and a superuser who locks it until the lock window runs out
SelfUpdates == {<<"carol", "None">>, <<Absent, "False">>, <<Absent, "True">>}
NextGuard ==
    \/ \E d \in GuardSteps : Tick(d)
    \/ \E p \in NewPasswords : register("alice", "alice@x.com", p)
    \/ \E p \in NewPasswords : create_superuser("root", "root@x.com", p)
    \/ \E u \in {"alice", "root"} : login(u, "Str0ng!Pass")
    \/ \E k \in Bearers : get_current_user_info(k)
    \/ \E k \in Bearers, su \in SelfUpdates :
          update_current_user(k, su[1], Absent, su[2])
    \/ \E k \in Bearers, i \in 1..MaxUsers : lock_user(k, i)

SpecGuard == Init /\ [][NextGuard]_vars

\* registrations and profile updates over three usernames and three addresses
RegistryNames == Usernames \cup {"carol"}
RegistryEmails == Emails \cup {"carol@x.com"}
OptUsernames == RegistryNames \cup {Absent}
OptEmails == RegistryEmails \cup {Absent}
NextRegistry ==
    \/ \E u \in RegistryNames, e \in RegistryEmails : register(u, e, "Str0ng!Pass")
    \/ next_jti <= MaxSessions /\ login("alice", "Str0ng!Pass")
    \/ \E k \in Bearers, n \in OptUsernames, e \in OptEmails :
          update_current_user(k, n, e, "None")

SpecRegistry == Init /\ [][NextRegistry]_vars

\* requests that pass through the security middleware on their way out
NextAudit ==
    \/ \E d \in GuardSteps : Tick(d)
    \/ \E u \in Usernames : register(u, "alice@x.com", "Str0ng!Pass")
    \/ \E u \in Usernames, p \in Passwords : next_jti <= MaxSessions /\ login(u, p)
    \/ \E k \in RefreshCandidates : logout(k)
    \/ \E slow \in BOOLEAN, testing \in BOOLEAN : dispatch(slow, testing)

SpecAudit == Init /\ [][NextAudit]_vars

\* a superuser deletes a user who has logged in and stored a vault token
NextDelete ==
    \/ \E p \in NewPasswords : register("alice", "alice@x.com", p)
    \/ \E p \in NewPasswords : create_superuser("root", "root@x.com", p)
    \/ \E u \in {"alice", "root"} : login(u, "Str0ng!Pass")
    \/ \E u \in UserIds :
          vault_store(u, CHOOSE td \in TokenCreates("github") : td.access_token = "A")
    \/ \E u \in VaultUsers : vault_fetch(u, "github", Absent)
    \/ \E k \in Bearers, i \in 1..MaxUsers : delete_user(k, i)

SpecDelete == Init /\ [][NextDelete]_vars

\* the refresh-token sweep: a superuser logs in, logs out, lets rows run out
\* and sweeps; the clock stops at a row's expiry and one minute after it
SweepSteps == {refresh_token_expire_minutes, refresh_token_expire_minutes + 1}
NextSweep ==
    \/ \E d \in SweepSteps : Tick(d)
    \/ \E p \in NewPasswords : create_superuser("root", "root@x.com", p)
    \/ login("root", "Str0ng!Pass")
    \/ \E k \in RefreshCandidates : logout(k)
    \/ \E k \in Bearers : cleanup_tokens(k)

SpecSweep == Init /\ [][NextSweep]_vars

\* sweeps, revocations and redemptions of the refresh-token store in flight
\* together
NextSweepRace ==
    \/ \E d \in SweepSteps : Tick(d)
    \/ \E p \in NewPasswords : register("alice", "alice@x.com", p)
    \/ next_jti <= MaxSessions /\ login("alice", "Str0ng!Pass")
    \/ \E k \in RefreshCandidates : refresh_token(k)
    \/ \E p \in Procs : sweep_begin(p)
    \/ \E p \in Procs : sweep_commit(p)
    \/ \E p \in Procs, k \in RefreshCandidates : revoke_begin(p, k)
    \/ \E p \in Procs : revoke_commit(p)

SpecSweepRace == Init /\ [][NextSweepRace]_vars

\* registrations in flight together
NextRegisterRace ==
    \/ \E p \in Procs, u \in RegistryNames, e \in RegistryEmails :
          register_begin(p, u, e, "Str0ng!Pass")
    \/ \E p \in Procs : register_commit(p)

SpecRegisterRace == Init /\ [][NextRegisterRace]_vars

\* requests whose bodies may be malformed
BodyNames == {"alice", "bob", "ab", "al;ce", LongName}
BodyEmails == {"alice@x.com", "invalid-email", "alice@x"}
BodyPasswords == {"Str0ng!Pass", "weak", "PASSWORD1!", "Passwords!"}
NextValidate ==
    \/ \E u \in BodyNames, e \in BodyEmails, p \in BodyPasswords :
          register_request(u, e, p)
    \/ next_jti <= MaxSessions /\ login("alice", "Str0ng!Pass")
    \/ \E k \in Bearers, n \in BodyNames \cup {Absent}, e \in BodyEmails \cup {Absent} :
          update_current_user_request(k, n, e, "None")

SpecValidate == Init /\ [][NextValidate]_vars

\* the vault sweep among stores for two services and a revocation
NextVaultSweep ==
    \/ \E d \in VaultSteps : Tick(d)
    \/ \E sv \in Services : \E td \in TokenCreates(sv) : vault_store(1, td)
    \/ vault_revoke(1, "github")
    \/ vault_sweep

SpecVaultSweep == Init /\ [][NextVaultSweep]_vars

\* the health probe over tables around the thresholds
HighCounts == {0, 10, 11, 50, 51}
FailedCounts == {0, 50, 51, 100, 101}
HealthTable(failed, high, critical) ==
    [k \in RowKinds |->
        IF k.age > 60 THEN 101
        ELSE IF k.event_type = "failed_login" THEN failed
        ELSE IF k.severity = "ERROR" THEN high
        ELSE critical]
HealthTables ==
    {HealthTable(failed, high, critical) :
        failed \in FailedCounts, high \in HighCounts, critical \in {0, 1}}
NextHealth ==
    \/ register("alice", "alice@x.com", "Str0ng!Pass")
    \/ next_jti <= MaxSessions /\ login("alice", "Str0ng!Pass")
    \/ \E k \in Bearers, t \in HealthTables : security_health_check(k, t)

SpecHealth == Init /\ [][NextHealth]_vars

\* start-up under environments with and without a usable secret, then the
\* codec at work
EnvSecretKeys ==
    {Absent, "short", "0123456789abcdef0123", "0123456789abcdef0123456789abcde",
     "0123456789abcdef0123456789abcdef"}
Started == settings.constructed
NextConfig ==
    \/ \E e \in EnvSecretKeys : startup(e)
    \/ \E d \in CodecSteps : Started /\ Tick(d)
    \/ \E d \in Deltas : Started /\ issue_access_token("alice", 1, d)
    \/ Started /\ issue_refresh_token(1)
    \/ \E k \in Forgeable, ty \in TokenTypes : Started /\ verify(k, ty)

SpecConfig == InitStartup /\ [][NextConfig]_vars

\* failed-login increments, locks, successful logins and unlocks of one user
Plain == {i \in UserIds : ~users[i].is_superuser}
NextCounter ==
    \/ \E d \in GuardSteps : Tick(d)
    \/ register("alice", "alice@x.com", "Str0ng!Pass")
    \/ create_superuser("root", "root@x.com", "Str0ng!Pass")
    \/ \E u \in {"alice", "root"} : login(u, "Str0ng!Pass")
    \/ \E i \in Plain : increment(i)
    \/ \E k \in Bearers, i \in Plain : lock_user(k, i)
    \/ \E k \in Bearers, i \in Plain : unlock_user(k, i)

SpecCounter == Init /\ [][NextCounter]_vars

\* stores with ttl omitted, 0 and a minute, and fetches
TtlCreates ==
    {[td EXCEPT !.expires_in = e] :
        td \in TokenCreates("github"), e \in {NoTtl, Ttl(0), Ttl(60)}}
NextVaultTtl ==
    \/ \E d \in VaultSteps : Tick(d)
    \/ \E td \in TtlCreates : vault_store(1, td)
    \/ vault_fetch(1, "github", Absent)

SpecVaultTtl == Init /\ [][NextVaultTtl]_vars

\* stores while a fetch or a sweep is in flight
NextVaultStale ==
    \/ \E d \in VaultSteps : Tick(d)
    \/ \E td \in TokenCreates("github") : vault_store(1, td)
    \/ \E p \in Procs : get_token_begin(p, 1, "github")
    \/ \E p \in Procs : get_token_commit(p)
    \/ \E p \in Procs : cleanup_begin(p)
    \/ \E p \in Procs : cleanup_commit(p)

SpecVaultStale == Init /\ [][NextVaultStale]_vars

NextPassword ==
    \/ \E d \in GuardSteps : Tick(d)
    \/ \E p \in ChangedPasswords : register("alice", "alice@x.com", p)
    \/ \E p \in ChangedPasswords : register("bob", "bob@x.com", p)
    \/ \E u \in Usernames, p \in PasswordInputs :
          next_jti <= MaxSessions /\ login(u, p)
    \/ \E k \in Bearers, c \in PasswordInputs, n \in ChangedPasswords :
          change_password(k, c, n)
    \/ \E u \in Usernames \cup {"nobody"}, p \in PasswordInputs : authenticate(u, p)

SpecPassword == Init /\ [][NextPassword]_vars

\* ===================================================================== claims
\* C1: after 5 consecutive failed logins (existing username, wrong password)
\* of one user the account is locked: locked_until lies in the future, so the
\* next login is refused as AccountLocked.
C1_LockedAfterFiveFailures ==
    (last.op = "login" /\ last.streak >= LockThreshold) =>
        /\ users[last.uid].locked_until # NoneTime
        /\ users[last.uid].locked_until > last.at

\* C2: while a user is locked no call issues a token for that user; a login
\* with the correct password is refused as AccountLocked and leaves the user
\* rows and the refresh-token store as they were.
C2_LockedLoginIsAccountLocked ==
    /\ last.was_locked => last.minted = {}
    /\ (last.op = "login" /\ last.was_locked /\ last.pwd_ok) =>
          /\ last.outcome = "AccountLocked"
          /\ ~last.users_changed
          /\ ~last.store_changed

\* C3: a login with correct credentials once now >= locked_until succeeds,
\* zeroes failed_login_attempts, clears the lock and stamps last_login.
C3_LoginAfterLockElapsed ==
    (last.op = "login" /\ last.lock_elapsed /\ last.pwd_ok) =>
        /\ last.outcome = "ok"
        /\ users[last.uid].failed_login_attempts = 0
        /\ users[last.uid].locked_until = NoneTime
        /\ users[last.uid].last_login = last.at

\* C3 as amended: the same for a user who is active.
C3_ActiveLoginAfterLockElapsed ==
    (last.op = "login" /\ last.lock_elapsed /\ last.pwd_ok /\ last.was_active) =>
        /\ last.outcome = "ok"
        /\ users[last.uid].failed_login_attempts = 0
        /\ users[last.uid].locked_until = NoneTime
        /\ users[last.uid].last_login = last.at

C3_Witness ==
    /\ last.op = "login" /\ last.lock_elapsed /\ last.pwd_ok /\ last.was_active
    /\ last.outcome = "ok"
    /\ last.at > 0

\* C4: a login against a locked user is refused before the password is
\* compared, so the outcome is AccountLocked whatever password was sent.
C4_LockedRefusedBeforePasswordCheck ==
    (last.op = "login" /\ last.was_locked) =>
        /\ ~last.pwd_checked
        /\ last.outcome = "AccountLocked"

\* the store holds a usable row for the token at time t
UsableRow(token, t) ==
    \E r \in refresh_tokens :
        /\ r.token_hash = hash_refresh_token(token)
        /\ ~r.is_revoked
        /\ r.expires_at > t

LoginRefreshTokens == {m.tok : m \in {x \in issued : x.by = "create_refresh_token"}}

\* C5: a refresh token issued at login, unexpired and not revoked, of a user
\* who exists and is active, is accepted by the refresh endpoint, which
\* returns a new access token carrying the token's user_id.
C5_RefreshTokenRedeems ==
    (/\ last.op = "refresh"
     /\ last.tok \in LoginRefreshTokens
     /\ ~(last.tok.exp < last.at)
     /\ UsableRow(last.tok, last.at)
     /\ last.existed /\ last.was_active) =>
        /\ last.outcome = "ok"
        /\ \E k \in last.minted : k.type = "access" /\ k.user_id = last.tok.user_id

\* C6: a redemption succeeds only if the store holds a row with the token's
\* hash that is not revoked and not expired; so a token whose row was revoked
\* is refused from then on.
C6_RedeemNeedsUsableRow ==
    (last.op = "refresh" /\ ~UsableRow(last.tok, last.at)) => last.outcome # "ok"

\* a refresh token made at login is presented after its row was revoked
C6_Witness ==
    /\ last.op = "refresh"
    /\ last.tok \in LoginRefreshTokens
    /\ \E r \in refresh_tokens :
          r.token_hash = hash_refresh_token(last.tok) /\ r.is_revoked
    /\ last.outcome = "TokenInvalid"

MadeFor(m) ==
    m.by = "create_access_token" /\ m.for_sub # Absent /\ m.for_id # NoId

\* C8: every access token issued for (username, user_id) and not yet expired
\* verifies as "access" to exactly that (username, user_id), and verifying the
\* same token as "refresh" returns none.
C8_AccessRoundTrip ==
    \A m \in issued :
        (MadeFor(m) /\ ~(m.tok.exp < now)) =>
            /\ verify_token(m.tok, "access", now) = TokenData(m.for_sub, m.for_id)
            /\ verify_token(m.tok, "refresh", now).is_none

C8_Witness ==
    /\ last.op = "verify_token"
    /\ last.expected = "access"
    /\ \E m \in issued : MadeFor(m) /\ m.tok = last.tok /\ ~(m.tok.exp < last.at)
    /\ ~last.data.is_none

\* C9: an access token issued with expires_delta <= 0 fails verification
\* (verify returns none for it).
C9_NonPositiveLifetimeFails ==
    \A m \in issued :
        (m.by = "create_access_token" /\ m.delta.given /\ m.delta.minutes <= 0) =>
            verify_token(m.tok, "access", now).is_none

\* C10: verify returns claims only for a token that decodes, carries a valid
\* signature, is unexpired, has the expected type and has both sub and
\* user_id; the claims are the token's own; otherwise the result is none,
\* never a partly filled object and never an exception.
C10_VerifyFailsClosed ==
    last.op = "verify_token" =>
        /\ ~last.data.raised
        /\ last.data.is_none => last.data = NoneData
        /\ ~last.data.is_none =>
              /\ last.tok.decodable
              /\ last.tok.sig = "valid"
              /\ ~(last.tok.exp < last.at)
              /\ last.tok.type = last.expected
              /\ last.tok.sub # Absent /\ last.data.username = last.tok.sub
              /\ last.tok.user_id # NoId /\ last.data.user_id = last.tok.user_id

\* a correctly signed, unexpired token of the expected type is turned down
\* because a required claim is missing
C10_Witness ==
    /\ last.op = "verify_token"
    /\ last.tok.sig = "valid" /\ last.tok.decodable
    /\ ~(last.tok.exp < last.at)
    /\ last.tok.type = last.expected
    /\ last.tok.sub = Absent \/ last.tok.user_id = NoId
    /\ last.data = NoneData

\* the active rows of a (user, service) pair
ActiveOf(user_id, service_name) ==
    {i \in DOMAIN oauth2_tokens : /\ oauth2_tokens[i].user_id = user_id
                                  /\ oauth2_tokens[i].service_name = service_name
                                  /\ oauth2_tokens[i].is_active}
RowsOf(user_id, service_name) ==
    {i \in DOMAIN oauth2_tokens : /\ oauth2_tokens[i].user_id = user_id
                                  /\ oauth2_tokens[i].service_name = service_name}

\* C11: after any sequence of vault calls (store, fetch, fetch_decrypted,
\* revoke, update, sweep_expired) run one at a time, each (user_id,
\* service_name) pair has at most one row with is_active = true.
C11_OneActiveRowPerPair ==
    \A pr \in Pairs : Cardinality(ActiveOf(pr[1], pr[2])) <= 1

\* a pair was stored, ended and stored again: two rows, one of them active
C11_Witness ==
    /\ vlast.op = "store"
    /\ Cardinality(RowsOf(vlast.user_id, vlast.service_name)) = 2
    /\ Cardinality(ActiveOf(vlast.user_id, vlast.service_name)) = 1

\* C12: when two store calls for one (user_id, service_name) run concurrently,
\* interleaved between the lookup and the commit, the pair still ends with at
\* most one active row.
C12_OneActiveRowUnderRace ==
    (\A p \in Procs : pending[p].phase = "idle") =>
        \A pr \in Pairs : Cardinality(ActiveOf(pr[1], pr[2])) <= 1

\* the token of a pair, as stored last, has run past its ttl by time t
ExpiredSince(h, t) ==
    h.expires_in.given /\ h.stored_at + timedelta_seconds(h.expires_in.seconds) < t

\* a store for the pair of the last call is on record and nothing ended it
LiveAtLastCall ==
    LET h == history[<<vlast.user_id, vlast.service_name>>]
    IN  h.plain # Absent /\ h.ended = "" /\ ~ExpiredSince(h, vlast.at)

\* C13: fetch_decrypted(user, service) returns exactly the plaintext access
\* token given to the most recent store for that pair, provided the token was
\* not revoked and has not expired since.
C13_FetchDecryptedReturnsLastStore ==
    (vlast.op = "fetch_decrypted" /\ LiveAtLastCall) =>
        /\ ~vlast.raised
        /\ vlast.plain = history[<<vlast.user_id, vlast.service_name>>].plain

\* C13 as amended: it returns the plaintext written last for the pair, by a
\* store or by an update that carried an access token.
C13_FetchDecryptedReturnsLastWritten ==
    (vlast.op = "fetch_decrypted" /\ LiveAtLastCall) =>
        /\ ~vlast.raised
        /\ vlast.plain = history[<<vlast.user_id, vlast.service_name>>].written

\* store "A" (with a refresh token), then store "B" in place, then
\* fetch_decrypted: the row still carries the first call's refresh token
C13_Witness ==
    /\ vlast.op = "fetch_decrypted"
    /\ LiveAtLastCall
    /\ vlast.plain = "B"
    /\ vlast.ret # 0
    /\ oauth2_tokens[vlast.ret].refresh_token.plain = "R"

\* C14: if the stored access-token ciphertext is corrupted or was encrypted
\* under another key, fetch_decrypted returns none, as for a missing token,
\* and does not raise.
C14_UnreadableCiphertextIsNone ==
    (/\ vlast.op = "fetch_decrypted"
     /\ vlast.ret # 0
     /\ \/ ~oauth2_tokens[vlast.ret].access_token.intact
        \/ oauth2_tokens[vlast.ret].access_token.key # cipher_key) =>
        /\ ~vlast.raised
        /\ vlast.plain = Absent

\* the step is a vault call of the given kind
VaultCall(op) ==
    vlast'.op = op /\ (vlast' # vlast \/ oauth2_tokens' # oauth2_tokens)

\* an expiry that lies before time t
Passed(expires_at, t) == expires_at.given /\ expires_at.at < t

\* the active row of the pair that a fetch narrowed by scope reads, 0 if none
FetchMatch(user_id, service_name, scope) ==
    First({i \in ActiveOf(user_id, service_name) :
              scope = Absent \/ ScopeContains(oauth2_tokens[i].scope, scope)})

\* C15: fetch never returns a token whose expires_at has passed: reading an
\* expired active row sets is_active = false and returns none, with no sweep
\* needed; reading a non-expired row returns that row and changes only
\* last_used_at.
C15_FetchTouchesOnlyLastUsed ==
    [][VaultCall("fetch") =>
         LET m == FetchMatch(vlast'.user_id, vlast'.service_name, vlast'.scope)
         IN  /\ vlast'.ret # 0 => ~Passed(oauth2_tokens'[vlast'.ret].expires_at, now)
             /\ (m # 0 /\ Passed(oauth2_tokens[m].expires_at, now)) =>
                   /\ vlast'.ret = 0
                   /\ ~oauth2_tokens'[m].is_active
             /\ (m # 0 /\ ~Passed(oauth2_tokens[m].expires_at, now)) =>
                   /\ vlast'.ret = m
                   /\ oauth2_tokens' =
                         [oauth2_tokens EXCEPT ![m].last_used_at = now]]_vars

\* C15 as amended: reading a non-expired row changes only last_used_at and
\* the row's updated_at stamp.
C15_FetchTouchesOnlyStamps ==
    [][VaultCall("fetch") =>
         LET m == FetchMatch(vlast'.user_id, vlast'.service_name, vlast'.scope)
         IN  /\ vlast'.ret # 0 => ~Passed(oauth2_tokens'[vlast'.ret].expires_at, now)
             /\ (m # 0 /\ Passed(oauth2_tokens[m].expires_at, now)) =>
                   /\ vlast'.ret = 0
                   /\ ~oauth2_tokens'[m].is_active
             /\ (m # 0 /\ ~Passed(oauth2_tokens[m].expires_at, now)) =>
                   /\ vlast'.ret = m
                   /\ oauth2_tokens' =
                         [oauth2_tokens EXCEPT ![m].last_used_at = now,
                                               ![m].updated_at = now]]_vars

\* a fetch found the pair's token expired and turned it off itself
C15_Witness ==
    /\ vlast.op = "fetch"
    /\ vlast.ret = 0
    /\ history[<<vlast.user_id, vlast.service_name>>].ended = ""
    /\ \E i \in RowsOf(vlast.user_id, vlast.service_name) :
          /\ ~oauth2_tokens[i].is_active
          /\ Passed(oauth2_tokens[i].expires_at, vlast.at)
          /\ oauth2_tokens[i].updated_at = vlast.at

\* C16: a store for a pair that already has an active row updates that row in
\* place, and afterwards every stored field (access-token and refresh-token
\* ciphertext, token type, scope, expiry, client id) reflects the second
\* call's arguments, also when it carries no refresh token or no ttl.
C16_StoreOverwritesEveryField ==
    [][VaultCall("store") =>
         LET td == vlast'.token_data
             had == ActiveOf(vlast'.user_id, vlast'.service_name)
         IN  had # {} =>
               /\ vlast'.ret \in had
               /\ Len(oauth2_tokens') = Len(oauth2_tokens)
               /\ LET row == oauth2_tokens'[vlast'.ret]
                  IN  /\ decrypt_token(cipher_key, row.access_token).plain
                            = td.access_token
                      /\ IF td.refresh_token = Absent
                         THEN row.refresh_token = NoCipher
                         ELSE decrypt_token(cipher_key, row.refresh_token).plain
                                  = td.refresh_token
                      /\ row.token_type = td.token_type
                      /\ row.scope = td.scope
                      /\ row.client_id = td.client_id
                      /\ row.expires_at =
                            IF td.expires_in.given
                            THEN ExpiresAt(now + timedelta_seconds(td.expires_in.seconds))
                            ELSE NoExpiry]_vars

\* C17: a vault call made for user u (store, fetch, fetch_decrypted, list,
\* revoke) reads and changes only rows with user_id = u, and fetch, revoke and
\* store only rows of the requested service; nothing it returns belongs to
\* another user.
C17_CallsStayInsideUserAndService ==
    [][(\E op \in {"store", "fetch", "fetch_decrypted", "list", "revoke"} :
            VaultCall(op)) =>
         LET u == vlast'.user_id
             s == vlast'.service_name
         IN  /\ DOMAIN oauth2_tokens \subseteq DOMAIN oauth2_tokens'
             /\ \A i \in DOMAIN oauth2_tokens :
                   oauth2_tokens[i].user_id # u => oauth2_tokens'[i] = oauth2_tokens[i]
             /\ \A i \in DOMAIN oauth2_tokens :
                   (vlast'.op # "list" /\ oauth2_tokens[i].service_name # s) =>
                       oauth2_tokens'[i] = oauth2_tokens[i]
             /\ \A i \in DOMAIN oauth2_tokens' \ DOMAIN oauth2_tokens :
                   oauth2_tokens'[i].user_id = u /\ oauth2_tokens'[i].service_name = s
             /\ vlast'.ret # 0 =>
                   /\ oauth2_tokens'[vlast'.ret].user_id = u
                   /\ oauth2_tokens'[vlast'.ret].service_name = s
             /\ vlast'.plain # Absent =>
                   vlast'.plain = oauth2_tokens'[vlast'.ret].access_token.plain
             /\ \A i \in vlast'.listed : oauth2_tokens[i].user_id = u]_vars

\* a user fetches their own token while another user holds an active token
\* for the same service
C17_Witness ==
    /\ vlast.op \in {"fetch", "fetch_decrypted"}
    /\ vlast.ret # 0
    /\ \E i \in DOMAIN oauth2_tokens :
          /\ oauth2_tokens[i].user_id # vlast.user_id
          /\ oauth2_tokens[i].service_name = vlast.service_name
          /\ oauth2_tokens[i].is_active
          /\ i < vlast.ret

\* C18: revoke(user, service) returns true exactly when an active row for the
\* pair existed, and sets it inactive; otherwise it returns false and changes
\* nothing; after a true result, fetch for the pair returns none until the
\* next store.
C18_RevokeContract ==
    [][/\ VaultCall("revoke") =>
            LET had == ActiveOf(vlast'.user_id, vlast'.service_name)
            IN  IF had # {}
                THEN /\ vlast'.ok
                     /\ \E i \in had :
                           /\ ~oauth2_tokens'[i].is_active
                           /\ \A j \in DOMAIN oauth2_tokens \ {i} :
                                 oauth2_tokens'[j] = oauth2_tokens[j]
                     /\ DOMAIN oauth2_tokens' = DOMAIN oauth2_tokens
                ELSE /\ ~vlast'.ok
                     /\ oauth2_tokens' = oauth2_tokens
       /\ ((VaultCall("fetch") \/ VaultCall("fetch_decrypted")) /\
           history'[<<vlast'.user_id, vlast'.service_name>>].ended = "revoked") =>
              /\ vlast'.ret = 0
              /\ vlast'.plain = Absent]_vars

\* a fetch after a revoke that returned true: the row is unexpired, and the
\* answer is none
C18_Witness ==
    /\ vlast.op \in {"fetch", "fetch_decrypted"}
    /\ vlast.ret = 0
    /\ history[<<vlast.user_id, vlast.service_name>>].ended = "revoked"
    /\ \E i \in RowsOf(vlast.user_id, vlast.service_name) :
          ~Passed(oauth2_tokens[i].expires_at, vlast.at)

\* C19: authenticate(username, password) returns the user exactly when a user
\* with that username exists and the password is the one set last for that
\* user by register or by a successful change_password; a change_password with
\* a wrong current password is rejected and leaves the stored hash as it was.
C19_AuthenticateMatchesLastSetPassword ==
    /\ last.op = "authenticate" =>
          LET named == {i \in DOMAIN users : users[i].username = last.username}
          IN  IF \E i \in named : i \in DOMAIN password_of /\ password_of[i] = last.pwd
              THEN last.uid \in named
              ELSE last.uid = NoId
    /\ (last.op = "change_password" /\ last.pwd_checked /\ ~last.pwd_ok) =>
          /\ last.outcome = "ValidationError"
          /\ ~last.users_changed

\* after a successful change to a new password, the password set at
\* registration no longer authenticates
C19_Witness ==
    /\ last.op = "authenticate"
    /\ last.uid = NoId
    /\ last.pwd = "Str0ng!Pass"
    /\ \E i \in DOMAIN users :
          /\ users[i].username = last.username
          /\ password_of[i] = "N3w!Passw0rd"
          /\ users[i].last_login # NoneTime
    /\ \E j \in DOMAIN users : password_of[j] = "Str0ng!Pass"

\* C20: a call to a protected operation gets past the current-user dependency
\* only if its bearer token verifies as an access token and the user it names
\* exists, is active and is not locked at the time of the call; every other
\* call is answered unauthenticated, inactive or locked and changes no user row
ProtectedOps ==
    {"get_current_user_info", "update_current_user", "lock_user", "unlock_user"}
Rejections == {"unauthenticated", "inactive", "locked"}
Admissible ==
    last.token_ok /\ last.existed /\ last.was_active /\ ~last.was_locked
C20_AdmittedOnlyIfTokenAndUserSound ==
    last.op \in ProtectedOps =>
        /\ last.outcome \notin Rejections => Admissible
        /\ last.outcome \in Rejections => ~last.users_changed
        /\ last.outcome = "inactive" => ~last.was_active
        /\ last.outcome = "locked" => last.was_locked

\* a sound token whose user is locked is turned away, while an earlier rename
\* has left another issued token naming nobody
C20_Witness ==
    /\ last.op \in ProtectedOps
    /\ last.outcome = "locked"
    /\ last.token_ok /\ last.existed /\ last.was_active /\ last.was_locked
    /\ \E k \in Bearers : BearerIsAccessToken(k, now) /\ NamedBy(k) = {}

\* C21: after any run of registrations and profile updates no two users share
\* a username and no two share an email; a register or a rename that would
\* collide is answered with a conflict error and leaves every user row as it was
C21_UsernamesAndEmailsUnique ==
    /\ \A i, j \in UserIds :
          i # j => /\ users[i].username # users[j].username
                   /\ users[i].email # users[j].email
    /\ last.op \in {"register", "update_current_user"} /\ last.collides =>
          last.outcome = "ConflictError"
    /\ last.op \in {"register", "update_current_user"} /\
          last.outcome = "ConflictError" => ~last.users_changed /\ last.collides

\* with both names and both addresses taken, a rename onto the other user's
\* name is turned away
C21_Witness ==
    /\ Cardinality(UserIds) = 2
    /\ last.op = "update_current_user"
    /\ last.collides /\ last.outcome = "ConflictError"
    /\ \E i \in UserIds : users[i].username = "bob" /\ users[i].email = "alice@x.com"

\* C22: a failed login does not tell the caller about the account: a login
\* with an unknown username and a login with a wrong password for an existing
\* user, active or not, locked or not, get one and the same generic
\* authentication failure
GenericFailure == login_response("AuthenticationFailure")
C22_FailedLoginsLookAlike ==
    last.op = "login" /\ (~last.existed \/ ~last.pwd_ok) =>
        login_response(last.outcome) = GenericFailure

\* a wrong password for an existing account that is switched off gets the
\* generic failure
C22_Witness ==
    /\ last.op = "login" /\ last.existed /\ ~last.pwd_ok /\ ~last.was_active
    /\ login_response(last.outcome) = GenericFailure

\* C23: every state-changing operation that succeeds (register, login, logout,
\* password change, lock, unlock, vault store, vault revoke, sweep) leaves in
\* the event log an event of its kind made at the time of the call
RecordedOps ==
    {"register", "login", "logout", "change_password", "lock_user", "unlock_user"}
Succeeded(call) ==
    IF call.op = "logout" THEN call.ret ELSE call.outcome = "ok"
HasEvent(event_types, t) ==
    \E n \in DOMAIN security_events :
        security_events[n].event_type \in event_types /\ security_events[n].at = t
C23_StateChangesAreRecorded ==
    /\ last.op \in RecordedOps /\ Succeeded(last) =>
          HasEvent({"user_registered", "successful_login", "user_logout",
                    "password_changed", "user_locked", "user_unlocked"}, last.at)
    /\ \/ vlast.op = "store"
       \/ vlast.op = "revoke" /\ vlast.ok
       \/ vlast.op = "sweep" /\ vlast.ret > 0
       => HasEvent({"oauth2_token_created", "oauth2_token_updated",
                    "oauth2_token_revoked", "oauth2_tokens_cleanup"}, vlast.at)

\* C24: recording a security event never raises and never changes how the
\* operation around it ends: a request whose handler succeeded leaves the
\* security middleware with the handler's own success status, also when the
\* middleware's event logging fails
C24_AuditLoggingNeverFailsTheRequest ==
    last.response # BlankLast.response /\ handler_status(last) < 400 =>
        /\ last.response.error = Absent
        /\ last.response.status_code = handler_status(last)

\* C25: once a user is deleted, none of that user's refresh tokens can be
\* redeemed and none of that user's vault tokens is still active or can be
\* fetched
C25_DeletedUserLeavesNoTokens ==
    last.op = "delete_user" /\ last.outcome = "ok" =>
        /\ \A k \in RefreshCandidates :
              k.user_id = last.uid =>
                  \/ verify_token(k, "refresh", now).is_none
                  \/ get_user_by_id(k.user_id) = NoId
                  \/ ~users[k.user_id].is_active
        /\ \A i \in DOMAIN oauth2_tokens :
              oauth2_tokens[i].user_id = last.uid => ~oauth2_tokens[i].is_active
        /\ get_token(oauth2_tokens, last.uid, "github", Absent, now).ret = 0

\* C26: failed authentications of one user that race lose at most one
\* increment per race and do not get round the lockout: a failed attempt that
\* overlaps no other is counted, the committed counter goes down only through
\* a lock or a reset, and the account is locked once LockThreshold failed
\* attempts in a row have been made
FailedAttempt(call) ==
    call.op = "login" /\ call.existed /\ ~call.pwd_ok
C26_RacingFailuresStillLock ==
    [][/\ \A i \in UserIds :
             users'[i].failed_login_attempts < users[i].failed_login_attempts =>
                 last'.op \in {"login", "lock_user", "unlock_user"} /\ last'.outcome = "ok"
       /\ FailedAttempt(last') /\ last' # last /\ ~last'.was_locked =>
             \/ users'[last'.uid].failed_login_attempts >
                    users[last'.uid].failed_login_attempts
             \/ LockedAt(users'[last'.uid], now')
       /\ FailedAttempt(last') /\ last'.streak >= LockThreshold =>
             LockedAt(users'[last'.uid], now')]_vars

\* C30: the refresh-token sweep deletes exactly the rows whose expires_at is
\* earlier than now, revoked or not, returns the number of rows it deleted and
\* leaves every other row as it was
SweepRan ==
    last'.op = "cleanup_tokens" /\ last'.outcome = "ok" /\ last' # last
C30_SweepDeletesExactlyExpiredRows ==
    [][SweepRan =>
          /\ refresh_tokens' = {r \in refresh_tokens : ~(r.expires_at < now)}
          /\ last'.count = Cardinality(refresh_tokens \ refresh_tokens')]_vars

\* a sweep took one revoked row that had run out and kept a row still running
C30_Witness ==
    /\ last.op = "cleanup_tokens" /\ last.outcome = "ok"
    /\ last.count = 1
    /\ \E r \in last.deleted : r.is_revoked /\ r.expires_at < last.at
    /\ \E r \in refresh_tokens : ~r.is_revoked /\ r.expires_at >= last.at

\* C27: with the refresh-token sweep running at the same time as a redeem, a
\* revoke or another sweep on the same rows, no row is deleted before it has
\* run out, no token that has run out is redeemed, and every one of the calls
\* ends without raising
C27_SweepIsSafeAmongOtherCalls ==
    /\ last.op = "cleanup_expired_tokens" =>
          \A r \in last.deleted : r.expires_at < last.at
    /\ last.op = "refresh" /\ last.outcome = "ok" => ~(last.tok.exp < last.at)
    /\ last.op \in {"cleanup_expired_tokens", "revoke_refresh_token", "refresh"} =>
          ~last.raised

\* C28: of two register calls with the same username, or the same email, that
\* run at the same time at most one creates a user, and the other is answered
\* with a conflict error, not with an unhandled fault
C28_RacingRegistrationsConflict ==
    /\ \A i, j \in UserIds :
          i # j => /\ users[i].username # users[j].username
                   /\ users[i].email # users[j].email
    /\ last.op = "register" /\ ~last.users_changed =>
          last.outcome = "ConflictError" /\ ~last.raised

\* C29 (as stated): register and profile update reject a username that is not
\* 3 to 50 characters of [a-zA-Z0-9_], a malformed email, or a password that
\* fails the strength rules, with a validation error raised before any storage
\* or hashing happens, leaving all rows unchanged
BadUsernames == {"ab", "al;ce", LongName}
MalformedEmails == {"invalid-email", "alice@x"}
WeakPasswords == {"weak", "password1!", "PASSWORD1!", "Passwords!", "Passw0rds"}
Malformed(call) ==
    \/ call.username \in BadUsernames
    \/ call.email \in MalformedEmails
    \/ call.pwd \in WeakPasswords
C29_MalformedInputIsAValidationErrorBeforeStorage ==
    last.op \in {"register", "update_current_user"} /\ Malformed(last) =>
        /\ last.outcome = "ValidationError"
        /\ ~last.queried /\ ~last.hashed /\ ~last.users_changed

\* C29 (amended): register rejects such a body with a validation error before
\* any storage or hashing; profile update resolves the caller from the bearer
\* token first and rejects such a username or email of an admitted caller
\* with a validation error; in both no hashing happens and no row changes
C29_MalformedInputIsRejectedAndChangesNothing ==
    [][LET call == last'
       IN  call.op \in {"register", "update_current_user"} /\ Malformed(call) =>
             /\ ~call.hashed
             /\ UNCHANGED <<users, refresh_tokens, oauth2_tokens, password_of>>
             /\ call.op = "register" =>
                   call.outcome = "ValidationError" /\ ~call.queried
             /\ call.op = "update_current_user" =>
                   IF call.token_ok /\ call.existed /\ call.was_active
                      /\ ~call.was_locked
                   THEN call.outcome = "ValidationError"
                   ELSE call.outcome \in Rejections]_vars
C29_Witness ==
    /\ last.op = "update_current_user" /\ last.username \in BadUsernames
    /\ last.token_ok /\ last.existed /\ last.queried
    /\ last.outcome = "ValidationError"

\* C31: the vault sweep sets is_active = false on exactly the active rows whose
\* expires_at is earlier than now and returns their number; rows with no
\* expiry, unexpired rows and already-inactive rows are unchanged, and no row
\* is deleted
DueRows ==
    {i \in DOMAIN oauth2_tokens : /\ oauth2_tokens[i].is_active
                                  /\ oauth2_tokens[i].expires_at.given
                                  /\ oauth2_tokens[i].expires_at.at < now}
C31_VaultSweepDeactivatesExactlyDueRows ==
    [][vlast'.op = "sweep" /\ now' = now =>
         /\ DOMAIN oauth2_tokens' = DOMAIN oauth2_tokens
         /\ \A i \in DueRows : ~oauth2_tokens'[i].is_active
         /\ \A i \in DOMAIN oauth2_tokens \ DueRows :
               oauth2_tokens'[i] = oauth2_tokens[i]
         /\ vlast'.ret = Cardinality(DueRows)]_vars
C31_Witness ==
    /\ vlast.op = "sweep" /\ vlast.ret = 1 /\ vlast.at = now
    /\ \E i, j \in DOMAIN oauth2_tokens :
          /\ ~oauth2_tokens[i].is_active /\ oauth2_tokens[i].updated_at = now
          /\ oauth2_tokens[j].is_active /\ ~oauth2_tokens[j].expires_at.given

\* C32 (as stated): administrative unlock, from any prior state of the user,
\* sets failed_login_attempts to 0 and clears locked_until, so the next login
\* with correct credentials succeeds immediately
Unlocked(call) == call.op = "unlock_user" /\ call.outcome = "ok"
UnlockClears ==
    Unlocked(last') =>
        /\ users'[last'.uid].failed_login_attempts = 0
        /\ users'[last'.uid].locked_until = NoneTime
LoginFollowsUnlock ==
    /\ Unlocked(last)
    /\ last'.op = "login" /\ last'.uid = last.uid /\ last'.pwd_ok
C32_UnlockThenLoginSucceeds ==
    [][/\ UnlockClears
       /\ LoginFollowsUnlock => last'.outcome = "ok"]_vars

\* C32 (amended): ... so the next login with correct credentials succeeds
\* immediately when the account is active
C32_UnlockThenLoginOfActiveUserSucceeds ==
    [][/\ UnlockClears
       /\ LoginFollowsUnlock /\ last'.was_active => last'.outcome = "ok"]_vars
C32_Witness ==
    /\ Unlocked(last) /\ last.users_changed
    /\ last.uid \in UserIds /\ users[last.uid].is_active
    /\ ~users[last.uid].is_superuser
    /\ users[last.uid].locked_until = NoneTime
    /\ next_jti <= MaxLogins

\* C33: the health signal over the last hour is 'critical' when high-severity
\* (ERROR or CRITICAL) events exceed 50 or failed logins exceed 100, otherwise
\* 'warning' when high-severity events exceed 10 or failed logins exceed 50,
\* otherwise 'healthy'
HighInHour(table) ==
    CountRows(table, {k \in RowKinds : k.age <= 60 /\
                                       k.severity \in {"ERROR", "CRITICAL"}})
FailedInHour(table) ==
    CountRows(table, {k \in RowKinds : k.age <= 60 /\
                                       k.event_type = "failed_login"})
C33_HealthSignalFollowsThresholds ==
    last.op = "security_health_check" /\ last.outcome = "ok" =>
        LET high == HighInHour(last.found)
            failed == FailedInHour(last.found)
        IN  /\ (high > 50 \/ failed > 100) => last.health.status = "critical"
            /\ ~(high > 50 \/ failed > 100) /\ (high > 10 \/ failed > 50) =>
                  last.health.status = "warning"
            /\ ~(high > 50 \/ failed > 100) /\ ~(high > 10 \/ failed > 50) =>
                  last.health.status = "healthy"
C33_Witness ==
    /\ last.op = "security_health_check" /\ last.outcome = "ok"
    /\ last.health.status = "critical"
    /\ HighInHour(last.found) = 51 /\ FailedInHour(last.found) = 0
    /\ \E k \in RowKinds : k.age > 60 /\ last.found[k] > 50

\* C34: configuration whose signing secret is shorter than 32 characters is
\* rejected when the settings object is constructed at startup, so no token is
\* ever signed or verified with a secret shorter than 32 characters
CodecOps == {"verify_token"}
C34_NoTokenUnderAShortSecret ==
    /\ settings.constructed => Len(settings.secret_key) >= 32
    /\ issued # {} \/ last.op \in CodecOps =>
          settings.constructed /\ Len(settings.secret_key) >= 32
C34_Witness ==
    /\ settings.constructed /\ settings.secret_key # DefaultSecretKey
    /\ Len(settings.secret_key) = 32
    /\ issued # {} /\ last.op \in CodecOps /\ ~last.data.is_none

C36_TokenResolvesToItsOwnUser ==
    /\ last.op \in {"update_current_user", "get_current_user_info"}
    /\ last.token_ok /\ last.outcome \notin Rejections
    => last.uid = last.claimed

\* C37: store with ttl_seconds supplied sets expires_at = store time +
\* ttl_seconds for every supplied value including 0, so a token stored with
\* ttl 0 is not returned by any later fetch; expires_at is null (never
\* expires) only when ttl_seconds is omitted
C37_SuppliedTtlAlwaysSetsExpiry ==
    /\ vlast.op = "store" =>
          LET ttl == vlast.token_data.expires_in
              row == oauth2_tokens[vlast.ret]
          IN  IF ttl.given
              THEN row.expires_at = ExpiresAt(vlast.at + timedelta_seconds(ttl.seconds))
              ELSE row.expires_at = NoExpiry
    /\ vlast.op = "fetch" /\ vlast.ret # 0 =>
          LET h == history[<<vlast.user_id, vlast.service_name>>]
          IN  ~(h.expires_in = Ttl(0) /\ vlast.at > h.stored_at)

\* C38: a store that completes for (user, service) is not undone by a fetch or
\* a sweep that read the previous, expired row before the store committed:
\* after both finish, the newly stored token is active and fetchable
Fetchable(row) ==
    row.is_active /\ ~(row.expires_at.given /\ row.expires_at.at < now)
C38_StaleReadersDoNotUndoAStore ==
    [][\A p \in Procs :
          pending[p].phase \in {"expired", "cleaning"} /\ pending'[p].phase = "idle" =>
              \A i \in DOMAIN oauth2_tokens :
                  Fetchable(oauth2_tokens[i]) => oauth2_tokens'[i].is_active]_vars

\* C39: updating the active vault token of (user, service) applies every
\* supplied field (access token, refresh token, expiry as now + expires_in,
\* scope, is_active), leaves every unsupplied field unchanged and returns the
\* updated row; when no active row exists it reports NotFound and changes
\* nothing
Applied(old, new, tu) ==
    /\ new.access_token = IF tu.access_token # Absent
                          THEN encrypt_token(cipher_key, tu.access_token)
                          ELSE old.access_token
    /\ new.refresh_token = IF tu.refresh_token # Absent
                           THEN encrypt_token(cipher_key, tu.refresh_token)
                           ELSE old.refresh_token
    /\ new.expires_at = IF tu.expires_in.given
                        THEN ExpiresAt(now + timedelta_seconds(tu.expires_in.seconds))
                        ELSE old.expires_at
    /\ new.scope = IF tu.scope # Absent THEN tu.scope ELSE old.scope
    /\ new.is_active = IF tu.is_active = "None" THEN old.is_active
                       ELSE (tu.is_active = "True")
C39_UpdateAppliesSuppliedFields ==
    [][\A tu \in TokenUpdates :
          vault_update(1, "github", tu) =>
              LET token == First(ActiveRows(oauth2_tokens, 1, "github"))
              IN  IF token = 0
                  THEN vlast'.status = "NotFound" /\ oauth2_tokens' = oauth2_tokens
                  ELSE /\ vlast'.status = "ok"
                       /\ Applied(oauth2_tokens[token], oauth2_tokens'[token], tu)]_vars

====
